---------------------------- MODULE Spec2Model ----------------------------
(***************************************************************************)
(* Model of the regulatory gap-analysis pipeline: the agents of            *)
(* src/agents.py, the generation client of src/llm_service.py, src/auth.py *)
(* and src/LLM.py, the vector store of src/document_processor.py, the      *)
(* rule downloader of src/sec_rule_downloader.py and the two drivers       *)
(* src/main.py and src/app.py.                                             *)
(*                                                                         *)
(* Strings are sequences of tokens.  A token [k |-> kind, n |-> chars] is  *)
(* a run of n characters: a literal of the code (kind = the literal), a    *)
(* marker the parser's regular expressions look for, or a run of plain     *)
(* words.  Lengths, slices, trimming and substring tests are computed on   *)
(* the character counts, so the thresholds of the code (50, 100, 100000)   *)
(* keep their values.                                                      *)
(***************************************************************************)
EXTENDS Integers, Sequences, FiniteSets, TLC

VARIABLES
    \* ---- orchestrator (src/main.py) and agents (src/agents.py)
    pc,                     \* position of the orchestrator
    regulation_files,       \* the regulation files found, in glob order
    ri,                     \* position of the regulation loop (1-based)
    regulation_text,        \* SECMonitoringAgent.run's result for the current file
    extracted_mandates,     \* RegulationAnalystAgent.run's result
    mandate_blocks,         \* _parse_mandates' result inside InternalPolicyAuditorAgent.run
    idx,                    \* enumerate(mandate_blocks, 1)
    findings,               \* the findings list of InternalPolicyAuditorAgent.run
    gap_analysis_findings,  \* InternalPolicyAuditorAgent.run's result
    all_regulations_data,   \* records handed to the report agent
    report_file,            \* the report written by save_consolidated_report_as_text
    index,                  \* the loaded vector store
    chunks,                 \* the loaded chunk list
    indices,                \* the labels the last index search returned
    relevant_chunks,        \* the chunks retrieved for the last mandate
    context,                \* the context of the last mandate's prompt
    calls,                  \* log of collaborator calls of the current regulation
    \* ---- vector store (src/document_processor.py) and UI runs (src/app.py)
    fs,                     \* file system: path -> file content
    INDEX_FILE,             \* module global of document_processor
    CHUNKS_FILE,            \* module global of document_processor
    run,                    \* per-run local state of the analyze handler
    builds                  \* number of create_vector_store calls started

vars == <<pc, regulation_files, ri, regulation_text, extracted_mandates,
          mandate_blocks, idx, findings, gap_analysis_findings,
          all_regulations_data, report_file, index, chunks, indices,
          relevant_chunks, context, calls, fs, INDEX_FILE, CHUNKS_FILE, run, builds>>

pipeVars == <<pc, regulation_files, ri, regulation_text, extracted_mandates,
              mandate_blocks, idx, findings, gap_analysis_findings,
              all_regulations_data, report_file, index, chunks,
              indices, relevant_chunks, context, calls>>

storeVars == <<fs, INDEX_FILE, CHUNKS_FILE, run, builds>>

---------------------------------------------------------------------------
(* Text                                                                    *)

Tok(k, n) == [k |-> k, n |-> n]

\* Python's None, kept apart from every string (the empty string is <<>>).
None == << Tok("None", 0) >>

NL == Tok("nl", 1)                              \* "\n"
SP(n) == Tok("sp", n)                           \* n spaces
WhiteSpace == {"nl", "sp"}                      \* what \s and strip() take
NUM == Tok("num", 2)                            \* "1.", "2.", ...: matches \d+\.
MANDATE_FIELD == Tok("**Mandate:**", 12)
CATEGORY_FIELD == Tok("**Category:**", 13)
REQUIREMENT_FIELD == Tok("**Requirement:**", 16)
SPECIFICS_FIELD == Tok("**Specifics:**", 14)
SOURCE_FIELD == Tok("**Source Reference:**", 21)
MANDATE_HEADER == Tok("MANDATE", 7)             \* a line starting "MANDATE"/"Mandate"
ERROR_WORD == Tok("Error", 5)
NO_ACTIONABLE == Tok("No actionable mandates", 22)
Words(n) == Tok("words", n)                     \* n characters of plain words
Lit(s, n) == Tok(s, n)                          \* a literal of the code, n characters

\* The tokens that begin and end with "**".
FieldMarkers ==
    {"**Mandate:**", "**Category:**", "**Requirement:**", "**Specifics:**",
     "**Source Reference:**"}

\* len(t): the characters of t, summed by halves.
RECURSIVE len(_)
len(t) ==
    IF t = <<>> THEN 0
    ELSE IF Len(t) = 1 THEN t[1].n
    ELSE len(SubSeq(t, 1, Len(t) \div 2)) + len(SubSeq(t, Len(t) \div 2 + 1, Len(t)))

\* not x: None and the empty string are falsy
Falsy(v) == v = None \/ v = <<>>

RECURSIVE lstrip(_)
lstrip(t) == IF t # <<>> /\ Head(t).k \in WhiteSpace THEN lstrip(Tail(t)) ELSE t

RECURSIVE rstrip(_)
rstrip(t) ==
    IF t # <<>> /\ t[Len(t)].k \in WhiteSpace THEN rstrip(SubSeq(t, 1, Len(t) - 1)) ELSE t

strip(t) == rstrip(lstrip(t))

\* A token cut by a slice: words stay words, a cut marker is no marker.
Cut(tok, n) == IF tok.k \in {"words", "nl", "sp"} THEN Tok(tok.k, n) ELSE Tok("fragment", n)

\* t[:n]
RECURSIVE Prefix(_, _)
Prefix(t, n) ==
    IF t = <<>> \/ n <= 0 THEN <<>>
    ELSE IF Len(t) = 1 THEN (IF t[1].n <= n THEN t ELSE << Cut(t[1], n) >>)
    ELSE LET left == SubSeq(t, 1, Len(t) \div 2)
             right == SubSeq(t, Len(t) \div 2 + 1, Len(t))
         IN  IF len(left) >= n THEN Prefix(left, n)
             ELSE left \o Prefix(right, n - len(left))

\* "literal" in t
Contains(t, k) == \E i \in 1..Len(t) : t[i].k = k

\* sep.join(parts)
RECURSIVE join(_, _)
join(sep, parts) ==
    IF parts = <<>> THEN <<>>
    ELSE IF Len(parts) = 1 THEN parts[1]
    ELSE parts[1] \o sep \o join(sep, Tail(parts))


---------------------------------------------------------------------------
(* InternalPolicyAuditorAgent._parse_mandates                              *)

MinBlockLen == 50
TitleLen == 100

\* re.split(r'\n(?=<K>)', t): the text is cut at every newline that a token
\* of a kind in K follows directly; the newline is dropped.
RECURSIVE SplitBefore(_, _, _)
SplitBefore(t, K, cur) ==
    IF t = <<>> THEN << cur >>
    ELSE IF Head(t).k = "nl" /\ Len(t) >= 2 /\ t[2].k \in K
         THEN << cur >> \o SplitBefore(Tail(t), K, <<>>)
         ELSE SplitBefore(Tail(t), K, Append(cur, Head(t)))

\* The same strategies with the field marker tried before the list numbers.
SplitFieldFirst(mandates_text) ==
    LET byField == SplitBefore(mandates_text, {"**Mandate:**"}, <<>>)
        byNumber == IF Len(byField) <= 1
                    THEN SplitBefore(mandates_text, {"num"}, <<>>)
                    ELSE byField
    IN  IF Len(byNumber) <= 1
        THEN SplitBefore(mandates_text, {"MANDATE"}, <<>>)
        ELSE byNumber

\* The three splitting strategies, each tried only if the one before
\* yielded at most one block.
SplitMandates(mandates_text) ==
    LET byNumber == SplitBefore(mandates_text, {"num"}, <<>>)
        byField == IF Len(byNumber) <= 1
                   THEN SplitBefore(mandates_text, {"**Mandate:**"}, <<>>)
                   ELSE byNumber
    IN  IF Len(byField) <= 1
        THEN SplitBefore(mandates_text, {"MANDATE"}, <<>>)
        ELSE byField

\* Index of the first token at or after i that is not white space (Len+1 if none).
RECURSIVE SkipWs(_, _)
SkipWs(b, i) == IF i <= Len(b) /\ b[i].k \in WhiteSpace THEN SkipWs(b, i + 1) ELSE i

\* (.+?)(?:\n|\*\*|$) from position i: the tokens up to a newline, a field
\* marker or the end.
RECURSIVE LineCapture(_, _)
LineCapture(b, i) ==
    IF i > Len(b) \/ b[i].k = "nl" \/ b[i].k \in FieldMarkers THEN <<>>
    ELSE << b[i] >> \o LineCapture(b, i + 1)

\* (.+?)(?:\n\*\*|\n\n|$) with DOTALL from position i: the tokens up to a
\* newline followed by a field marker or by a second newline, or the end.
RECURSIVE ParaCapture(_, _)
ParaCapture(b, i) ==
    IF i > Len(b) THEN <<>>
    ELSE IF b[i].k = "nl" /\ i < Len(b)
            /\ (b[i + 1].k = "nl" \/ b[i + 1].k \in FieldMarkers) THEN <<>>
    ELSE << b[i] >> \o ParaCapture(b, i + 1)

NoMatch == [found |-> FALSE, group |-> <<>>]

\* re.search(r'\*\*<Field>:\*\*\s*(.+?)(?:\n|\*\*|$)', block) from token i on.
\* After the marker and its white space the capture needs one character that
\* is no newline; a field marker standing there is captured up to its
\* closing "**", and when only white space follows the marker the capture is
\* one of its spaces, if it has any.
RECURSIVE LineField(_, _, _)
LineField(b, field, i) ==
    IF i > Len(b) THEN NoMatch
    ELSE IF b[i].k # field THEN LineField(b, field, i + 1)
    ELSE LET j == SkipWs(b, i + 1)
         IN  IF j > Len(b)
             THEN IF \E p \in (i + 1)..Len(b) : b[p].k = "sp"
                  THEN [found |-> TRUE, group |-> << SP(1) >>]
                  ELSE LineField(b, field, i + 1)
             ELSE IF b[j].k \in FieldMarkers
                  THEN [found |-> TRUE, group |-> << Cut(b[j], b[j].n - 2) >>]
                  ELSE [found |-> TRUE, group |-> LineCapture(b, j)]

\* re.search(r'\*\*<Field>:\*\*\s*(.+?)(?:\n\*\*|\n\n|$)', block, DOTALL)
\* from token i on.  When only white space follows the marker the capture
\* is the last character of it.
RECURSIVE ParaField(_, _, _)
ParaField(b, field, i) ==
    IF i > Len(b) THEN NoMatch
    ELSE IF b[i].k # field THEN ParaField(b, field, i + 1)
    ELSE LET j == SkipWs(b, i + 1)
         IN  IF j <= Len(b) THEN [found |-> TRUE, group |-> ParaCapture(b, j)]
             ELSE IF j > i + 1 THEN [found |-> TRUE, group |-> << Cut(b[Len(b)], 1) >>]
             ELSE NoMatch

\* block.split('.')[0]: the text before the first full stop; the full stop
\* of a list number "1." leaves its digits.
RECURSIVE FirstSentence(_)
FirstSentence(b) ==
    IF b = <<>> THEN <<>>
    ELSE IF Head(b).k = "num" THEN << Tok("digits", Head(b).n - 1) >>
    ELSE IF Head(b).k = "dot" THEN <<>>
    ELSE << Head(b) >> \o FirstSentence(Tail(b))

Uncategorized == << Lit("Uncategorized", 13) >>

\* The mandate built from one block (the body of the for loop).
ParseBlock(block) ==
    LET title_match == LineField(block, "**Mandate:**", 1)
        category_match == LineField(block, "**Category:**", 1)
        requirement_match == ParaField(block, "**Requirement:**", 1)
        specifics_match == ParaField(block, "**Specifics:**", 1)
    IN  IF title_match.found \/ requirement_match.found
        THEN [title |-> IF title_match.found THEN strip(title_match.group)
                        ELSE strip(Prefix(block, TitleLen)),
              category |-> IF category_match.found THEN strip(category_match.group)
                           ELSE Uncategorized,
              requirement |-> IF requirement_match.found
                              THEN strip(requirement_match.group) ELSE <<>>,
              specifics |-> IF specifics_match.found
                            THEN strip(specifics_match.group) ELSE <<>>,
              full_text |-> strip(block)]
        ELSE [title |-> strip(Prefix(FirstSentence(block), TitleLen)),
              category |-> Uncategorized,
              requirement |-> strip(block),
              specifics |-> <<>>,
              full_text |-> strip(block)]

\* The loop with the length of a block taken before it is stripped.
RECURSIVE ParseBlocksUntrimmed(_)
ParseBlocksUntrimmed(blocks) ==
    IF blocks = <<>> THEN <<>>
    ELSE IF len(Head(blocks)) < MinBlockLen THEN ParseBlocksUntrimmed(Tail(blocks))
    ELSE << ParseBlock(Head(blocks)) >> \o ParseBlocksUntrimmed(Tail(blocks))

RECURSIVE ParseBlocks(_)
ParseBlocks(blocks) ==
    IF blocks = <<>> THEN <<>>
    ELSE IF len(strip(Head(blocks))) < MinBlockLen THEN ParseBlocks(Tail(blocks))
    ELSE << ParseBlock(Head(blocks)) >> \o ParseBlocks(Tail(blocks))

_parse_mandates(mandates_text) ==
    IF Contains(mandates_text, "No actionable mandates") THEN <<>>
    ELSE ParseBlocks(SplitMandates(mandates_text))


---------------------------------------------------------------------------
(* Vector store: src/document_processor.py                                 *)

\* Paragraph i of a document: plain words, told apart by their length.
Paragraph(i) == << Words(10 + i) >>

\* Name of document d (os.path.basename(path)).
DocName(d) == << Words(4 + d), Lit(".pdf", 4) >>

\* text.split('\n\n'): cut at each pair of newlines, left to right.
RECURSIVE SplitParagraphs(_, _)
SplitParagraphs(t, cur) ==
    IF t = <<>> THEN << cur >>
    ELSE IF Len(t) >= 2 /\ t[1].k = "nl" /\ t[2].k = "nl"
         THEN << cur >> \o SplitParagraphs(Tail(Tail(t)), <<>>)
         ELSE SplitParagraphs(Tail(t), Append(cur, Head(t)))

\* f"Source: {os.path.basename(path)}\n\n{p.strip()}"
SourceChunk(name, p) == << Lit("Source: ", 8) >> \o name \o << NL, NL >> \o strip(p)

\* Every paragraph made a chunk, blank ones included.
ChunksKeepingBlank(name, paragraphs) ==
    [i \in 1..Len(paragraphs) |-> SourceChunk(name, paragraphs[i])]

RECURSIVE ChunksOf(_, _)
ChunksOf(name, paragraphs) ==
    IF paragraphs = <<>> THEN <<>>
    ELSE IF strip(Head(paragraphs)) # <<>>
         THEN << SourceChunk(name, Head(paragraphs)) >> \o ChunksOf(name, Tail(paragraphs))
         ELSE ChunksOf(name, Tail(paragraphs))

\* The chunks of the documents up to the first one PdfReader raises on.
RECURSIVE ChunksUntilUnreadable(_)
ChunksUntilUnreadable(docs) ==
    IF docs = <<>> \/ Head(docs).text = None THEN <<>>
    ELSE ChunksOf(Head(docs).name, SplitParagraphs(Head(docs).text, <<>>))
         \o ChunksUntilUnreadable(Tail(docs))

\* A document is [name, text]; text = None when PdfReader raises on it.
RECURSIVE load_and_chunk_pdfs(_)
load_and_chunk_pdfs(docs) ==
    IF docs = <<>> THEN <<>>
    ELSE (IF Head(docs).text = None THEN <<>>
          ELSE ChunksOf(Head(docs).name, SplitParagraphs(Head(docs).text, <<>>)))
         \o load_and_chunk_pdfs(Tail(docs))

\* The embedding model: a deterministic map from a text to a vector of
\* dimension 1 with VecRange possible values; texts whose lengths agree
\* modulo VecRange get the same vector.
VecRange == 4
encode(text) == len(text) % VecRange

\* The difference of two vectors, sign kept.
SignedDifference(a, b) == a - b

\* Squared Euclidean distance of IndexFlatL2.
L2(a, b) == (a - b) * (a - b)

\* The first n positive integers.
CountFromOne(n) == [i \in 1..n |-> i]

\* np.arange(n)
arange(n) == [i \in 1..n |-> i - 1]

\* faiss.IndexIDMap(faiss.IndexFlatL2(d)) after add_with_ids(embeddings, ids):
\* the stored vectors xb and, position by position, their ids.
add_with_ids(embeddings, ids) ==
    [ntotal |-> Len(embeddings), xb |-> embeddings, id_map |-> ids]

BuildIndex(chunk_list) ==
    add_with_ids([i \in 1..Len(chunk_list) |-> encode(chunk_list[i])],
                 arange(Len(chunk_list)))

\* faiss.write_index / faiss.read_index: the file holds the vector count,
\* then the vectors, then the ids.
write_index(ix) == [kind |-> "faiss", bytes |-> << ix.ntotal >> \o ix.xb \o ix.id_map]
read_index(file) ==
    LET n == file.bytes[1]
    IN  [ntotal |-> n,
         xb |-> SubSeq(file.bytes, 2, n + 1),
         id_map |-> SubSeq(file.bytes, n + 2, 2 * n + 1)]

\* pickle.dump / pickle.load of a list of strings: each string is framed by
\* its length.
pickle_dump(chunk_list) ==
    [kind |-> "pickle",
     items |-> [i \in 1..Len(chunk_list) |->
                   [size |-> len(chunk_list[i]), str |-> chunk_list[i]]]]
pickle_load(file) == [i \in 1..Len(file.items) |-> file.items[i].str]

\* The k nearest stored vectors, nearest first, as sequences of positions in
\* xb; vectors at the same distance may come in either order.
RECURSIVE Nearest(_, _, _, _)
Nearest(ix, q, rest, k) ==
    IF k = 0 \/ rest = {} THEN { <<>> }
    ELSE LET best == { i \in rest : \A j \in rest : L2(ix.xb[i], q) <= L2(ix.xb[j], q) }
         IN  UNION { { << i >> \o r : r \in Nearest(ix, q, rest \ {i}, k - 1) } : i \in best }

\* index.search(q, k): the labels of the k nearest vectors; when the index
\* holds fewer than k vectors the missing labels are -1.
search(ix, q, k) ==
    { [p \in 1..k |-> IF p <= Len(r) THEN ix.id_map[r[p]] ELSE -1]
        : r \in Nearest(ix, q, 1..ix.ntotal, k) }

\* text_chunks[i] of Python: a negative i counts from the end; out of range
\* raises IndexError.
InRange(list, i) == -Len(list) <= i /\ i < Len(list)
getitem(list, i) == IF i >= 0 THEN list[i + 1] ELSE list[Len(list) + i + 1]


---------------------------------------------------------------------------
(* Generation client: src/auth.py, src/llm_service.py, src/LLM.py          *)

\* MyCustomLLM._call's own error results.
TimedOut ==
    << ERROR_WORD, Lit(": Request timed out. The document may be too large or complex.", 62) >>
ErrorFromAPI == << ERROR_WORD, Lit(" from API: ", 11), Words(9) >>

\* str(e) of the exceptions authenticate() lets through: the KeyError of
\* response.json()['token'] and the decode error of response.json().
KeyErrorToken == << Lit("'token'", 7) >>
JSONDecodeError == << Lit("Expecting value: line 1 column 1 (char 0)", 40) >>

\* authenticate(): the token, or exit() when requests.post raises
\* (SystemExit, which no "except Exception" catches), or the exception of
\* response.json()['token'].
AuthOutcomes ==
    { [kind |-> "token", val |-> <<>>],
      [kind |-> "exit", val |-> <<>>],
      [kind |-> "raise", val |-> KeyErrorToken],
      [kind |-> "raise", val |-> JSONDecodeError] }

\* llm_chat(prompt): authenticate(), then MyCustomLLM._call(prompt), whose
\* result is reply.
llm_chat(auth, reply) ==
    IF auth.kind = "token" THEN [kind |-> "return", val |-> reply] ELSE auth

\* Every outcome of llm_chat when the endpoint's possible results are replies.
ChatOutcomes(replies) == { llm_chat(a, r) : a \in AuthOutcomes, r \in replies }


---------------------------------------------------------------------------
(* Agents: src/agents.py                                                   *)

MaxMandates == 2

MinRegulationLen == 100
max_length == 100000
MinResponseLen == 50
ErrorWindow == 100
MinMandatesLen == 50
RawOutputLen == 1000
k == 5

EmptyRegulationError ==
    << ERROR_WORD, Lit(": Regulation document appears to be empty or unreadable.", 56) >>
InvalidAnalysisError ==
    << ERROR_WORD, Lit(": LLM did not provide a valid analysis. The document may be too complex or the API may have failed.", 99) >>
ErrorAnalyzing(e) == << ERROR_WORD, Lit(" analyzing regulation: ", 23) >> \o e
TruncationMarker == << NL, NL, Lit("[...Document truncated due to length...]", 40) >>
NoMandatesError ==
    << ERROR_WORD, Lit(": No mandates were extracted from the regulation.", 49) >>
NoParsePrefix ==
    << Lit("No mandates could be parsed for analysis. Raw output:", 53), NL, NL >>
NoRelevantPolicies == << Lit("No relevant internal policies found.", 36) >>
InsufficientAnalysis == << ERROR_WORD, Lit(": LLM returned insufficient analysis.", 37) >>
SectionBreak == << NL, NL, Lit("===SECTION BREAK===", 19), NL, NL >>

\* ---- RegulationAnalystAgent.run

\* The guard without the trimming of line 36.
TooShortUntrimmed(text) == Falsy(text) \/ len(text) < MinRegulationLen

\* The guard of lines 35-38.
TooShort(text) == Falsy(text) \/ len(strip(text)) < MinRegulationLen

\* The cut made from max_length characters on.
TruncatedFromLimit(text) ==
    IF len(text) >= max_length THEN Prefix(text, max_length) \o TruncationMarker ELSE text

\* Lines 40-44: the text placed in the prompt.
Truncated(text) ==
    IF len(text) > max_length THEN Prefix(text, max_length) \o TruncationMarker ELSE text

\* Lines 76-96: the result for an outcome of llm_chat that is not exit().
AnalystResult(outcome) ==
    IF outcome.kind = "raise" THEN ErrorAnalyzing(outcome.val)
    ELSE IF Falsy(outcome.val) \/ len(strip(outcome.val)) < MinResponseLen
         THEN InvalidAnalysisError
         ELSE outcome.val

\* ---- what the generation endpoint may answer to the extraction prompt

MandateTitle(i) == << Words(20 + i) >>
ErrorTitle(i) == << ERROR_WORD, Words(20 + i) >>

\* One block of the format the prompt asks for.
MandateBlock(i, title) ==
    << NUM, MANDATE_FIELD >> \o title
    \o << NL, CATEGORY_FIELD, Words(9),
          NL, REQUIREMENT_FIELD, Words(40 + i),
          NL, SPECIFICS_FIELD, Words(30 + i) >>

\* The numbered list in the layouts a reply may have: the lines after the
\* first of each item indented by indent spaces under the item's number (a
\* markdown list) or not at all, the items parted by gap, with or without
\* the Source Reference line.
NumberedList(m, indent, gap, ref, firstTitle) ==
    LET Line == IF indent = 0 THEN << NL >> ELSE << NL, SP(indent) >>
    IN  join(gap,
             [i \in 1..m |->
                << NUM, MANDATE_FIELD >> \o (IF i = 1 THEN firstTitle ELSE MandateTitle(i))
                \o Line \o << CATEGORY_FIELD, Words(9) >>
                \o Line \o << REQUIREMENT_FIELD, Words(40 + i) >>
                \o Line \o << SPECIFICS_FIELD, Words(30 + i) >>
                \o (IF ref THEN Line \o << SOURCE_FIELD, Words(12) >> ELSE <<>>)])

Indents == {0, 2, 3, 4}
Gaps == { << NL >>, << NL, NL >>, << NL, NL, Lit("---", 3), NL, NL >> }

NumberedLists ==
    { NumberedList(m, indent, gap, ref, first) :
         m \in 1..MaxMandates, indent \in Indents, gap \in Gaps, ref \in BOOLEAN,
         first \in { MandateTitle(1), ErrorTitle(1) } }

\* Replies that do not follow the format: up to MaxLines lines, each opening
\* with a list number, a field marker, a MANDATE header or plain words, and
\* long enough for a block, too short, or long enough only with the blanks
\* at its end.
MaxLines == 3
FreeLines ==
    { s \o b :
         s \in { <<>>, << NUM >>, << MANDATE_FIELD >>, << MANDATE_HEADER >>,
                 << REQUIREMENT_FIELD >> },
         b \in { << Words(60) >>, << Words(10) >>, << Words(45), SP(5) >> } }

MandateList(m, firstTitle) ==
    join(<< NL, NL >>,
         [i \in 1..m |-> MandateBlock(i, IF i = 1 THEN firstTitle ELSE MandateTitle(i))])

Sentinel == << NO_ACTIONABLE, Words(53) >>

AnalystReplies ==
    { MandateList(m, MandateTitle(1)) : m \in 1..MaxMandates }
    \cup { MandateList(m, ErrorTitle(1)) : m \in 1..MaxMandates }
    \cup { Sentinel,
           MandateList(1, MandateTitle(1)) \o << NL, NL, Words(30), NO_ACTIONABLE >>,
           << Words(200) >>, << Tok("dot", 1), Words(80) >>,
           << Words(20) >>, <<>>, None, TimedOut, ErrorFromAPI }

\* The long analysis is long enough for the findings of a run to pass
\* max_findings_length.
AuditReplies ==
    { << Words(80000) >>, << Words(20) >>, << SP(2), Words(MinResponseLen - 1), NL >>,
      <<>>, None, TimedOut }

\* ---- InternalPolicyAuditorAgent.run

\* Line 135
QueryText(mb) ==
    mb.title \o << Lit(" ", 1) >> \o mb.requirement \o << Lit(" ", 1) >> \o mb.specifics

\* Lines 201-216
full_finding(i, mb, analysis_result) ==
    << NL, Lit("=", 80), NL, Lit("MANDATE ", 8), Lit(ToString(i), 1), Lit(": ", 2) >>
    \o mb.title
    \o << NL, Lit("=", 80), NL, NL, Lit("**Category:** ", 14) >> \o mb.category
    \o << NL, NL, Lit("**Regulatory Requirement:**", 27), NL >> \o mb.requirement
    \o << NL, NL, Lit("**Specifics:**", 14), NL >> \o mb.specifics
    \o << NL, NL, Lit("**GAP ANALYSIS:**", 17), NL >> \o analysis_result \o << NL >>

\* Line 222
error_record(i, mb, e) ==
    << Lit("**Mandate ", 10), Lit(ToString(i), 1), Lit(":** ", 4) >> \o mb.title
    \o << NL, Lit("**Error:** Could not complete analysis - ", 41) >> \o e

\* The check with the length of the answer taken before it is stripped.
CheckedAnalysisUntrimmed(analysis_result) ==
    IF Falsy(analysis_result) \/ len(analysis_result) < MinResponseLen
    THEN InsufficientAnalysis
    ELSE analysis_result

\* Lines 197-198
CheckedAnalysis(analysis_result) ==
    IF Falsy(analysis_result) \/ len(strip(analysis_result)) < MinResponseLen
    THEN InsufficientAnalysis
    ELSE analysis_result

\* Lines 193-222: the entry appended for an outcome of llm_chat that is not exit().
Finding(i, mb, outcome) ==
    IF outcome.kind = "raise" THEN error_record(i, mb, outcome.val)
    ELSE full_finding(i, mb, CheckedAnalysis(outcome.val))

\* Lines 106-117: the early results; NotEarly when the mandates are parsed.
NotEarly == << Lit("(parsed)", 0) >>

\* The early results without the check of lines 115-117.
EarlyResultOfErrors(mandates_text) ==
    IF Falsy(mandates_text) \/ len(strip(mandates_text)) < MinMandatesLen
    THEN NoMandatesError
    ELSE IF Contains(Prefix(mandates_text, ErrorWindow), "Error") THEN mandates_text
    ELSE NotEarly

EarlyResult(mandates_text) ==
    IF Falsy(mandates_text) \/ len(strip(mandates_text)) < MinMandatesLen
    THEN NoMandatesError
    ELSE IF Contains(Prefix(mandates_text, ErrorWindow), "Error") THEN mandates_text
    ELSE IF Contains(mandates_text, "No actionable mandates") THEN mandates_text
    ELSE NotEarly


---------------------------------------------------------------------------
(* Orchestrator: src/main.py                                               *)

MaxRegs == 2
MaxChunks == 6

\* What PdfReader yields for a regulation file: None stands for a file it
\* raises on.  (A text longer than max_length differs from the others only
\* in the prompt it is cut for; it is among AnalystInputs.)
RegulationTexts == { None, <<>>, << Words(60) >>, << Words(500) >> }

RegName(i) == << Words(8 + i), Lit(".pdf", 4) >>

RegulationFileLists(lo, hi) ==
    UNION { { [i \in 1..n |-> [name |-> RegName(i), text |-> texts[i]]]
                : texts \in [1..n -> RegulationTexts] } : n \in lo..hi }

\* The internal documents a store was built from: one document of n
\* paragraphs.
PolicyDocs(n) ==
    << [name |-> DocName(1),
        text |-> join(<< NL, NL >>, [i \in 1..n |-> Paragraph(i)])] >>

NoCalls == <<>>
Call(who, op, i, outcome) == [who |-> who, op |-> op, idx |-> i, outcome |-> outcome]

StoreIdle ==
    /\ fs = <<>>
    /\ INDEX_FILE = <<>>
    /\ CHUNKS_FILE = <<>>
    /\ run = <<>>
    /\ builds = 0

\* The store the orchestrator has loaded: built from n paragraphs.
LoadedStore(sizes) ==
    \E n \in sizes :
       /\ chunks = load_and_chunk_pdfs(PolicyDocs(n))
       /\ index = BuildIndex(chunks)

LocalsInit ==
    /\ extracted_mandates = None
    /\ mandate_blocks = <<>>
    /\ idx = 0
    /\ findings = <<>>
    /\ gap_analysis_findings = None
    /\ indices = <<>>
    /\ relevant_chunks = <<>>
    /\ context = <<>>
    /\ calls = NoCalls

\* The state at line 23 of main(): the store path holds nothing or a store
\* an earlier run built, the internal documents folder holds no PDF, an
\* unreadable one or a readable one (run[1].docs), and the regulation files
\* are those the glob of line 62 will find.
MainInit ==
    /\ pc = "start"
    /\ regulation_files \in RegulationFileLists(0, MaxRegs)
    /\ ri = 1
    /\ regulation_text = None
    /\ all_regulations_data = <<>>
    /\ report_file = None
    /\ index = [ntotal |-> 0, xb |-> <<>>, id_map |-> <<>>]
    /\ chunks = <<>>
    /\ LocalsInit
    /\ INDEX_FILE = [dir |-> 0, name |-> "faiss_index.bin"]
    /\ CHUNKS_FILE = [dir |-> 0, name |-> "chunks.pkl"]
    /\ builds = 0
    /\ \E stored \in BOOLEAN,
          docs \in { <<>>, << [name |-> DocName(1), text |-> None] >>, PolicyDocs(MaxChunks) } :
          /\ run = << [docs |-> docs] >>
          /\ fs = [p \in {INDEX_FILE, CHUNKS_FILE} |->
                     IF ~stored THEN [kind |-> "absent", bytes |-> <<>>]
                     ELSE IF p = INDEX_FILE
                     THEN [kind |-> "faiss",
                           bytes |-> write_index(BuildIndex(load_and_chunk_pdfs(PolicyDocs(MaxChunks)))).bytes]
                     ELSE [kind |-> "pickle",
                           bytes |-> pickle_dump(load_and_chunk_pdfs(PolicyDocs(MaxChunks))).items]]

\* What RegulationAnalystAgent.run may be given: any text, None included.
AnalystInputs ==
    RegulationTexts
    \cup { << Words(max_length + 1) >>, << Words(max_length) >>,
           << Words(60000), NL, Words(60000) >>,
           << Words(MinRegulationLen - 1) >>, << Words(MinRegulationLen) >>,
           << NL, Words(MinRegulationLen - 2), NL >>,
           << NL, Words(MinRegulationLen), NL >>, << NL, NL >> }

\* The two agents called in turn on any text, against any store:
\* RegulationAnalystAgent.run(text), then InternalPolicyAuditorAgent.run on
\* its result.
AgentsInit ==
    /\ pc = "analyst"
    /\ regulation_files = <<>>
    /\ ri = 1
    /\ regulation_text \in AnalystInputs
    /\ all_regulations_data = <<>>
    /\ report_file = None
    /\ LoadedStore(1..MaxChunks)
    /\ LocalsInit
    /\ StoreIdle

\* The names the loop body binds are dead once an iteration ends: every one
\* is assigned again before it is read.
LoopLocalsReset ==
    /\ regulation_text' = None
    /\ extracted_mandates' = None
    /\ mandate_blocks' = <<>>
    /\ idx' = 0
    /\ findings' = <<>>
    /\ gap_analysis_findings' = None
    /\ calls' = NoCalls

\* main.py lines 23-35: the store is loaded; if there is none it is built
\* from the internal documents (and main returns when there are none) and
\* loaded again.  An exception of a file write ends main.  The documents
\* folder is not read again, so the model drops it here.
SetupStore ==
    /\ pc = "start"
    /\ LET stored == fs[INDEX_FILE].kind # "absent" /\ fs[CHUNKS_FILE].kind # "absent"
           docs == run[1].docs
           found == load_and_chunk_pdfs(docs)
           cutFile == [kind |-> "truncated", bytes |-> <<>>]
           indexFile == [kind |-> "faiss", bytes |-> write_index(BuildIndex(found)).bytes]
           chunkFile == [kind |-> "pickle", bytes |-> pickle_dump(found).items]
       IN  IF stored
           THEN /\ index' = read_index(fs[INDEX_FILE])
                /\ chunks' = pickle_load([kind |-> "pickle", items |-> fs[CHUNKS_FILE].bytes])
                /\ pc' = "loop"
                /\ UNCHANGED fs
           ELSE IF docs = <<>> \/ found = <<>>
           THEN /\ pc' = "aborted"
                /\ UNCHANGED <<fs, index, chunks>>
           ELSE \E wrote \in {"none", "index", "both"}, cut \in BOOLEAN :
                   /\ IF wrote = "both"
                      THEN /\ cut = FALSE
                           /\ fs' = [fs EXCEPT ![INDEX_FILE] = indexFile,
                                               ![CHUNKS_FILE] = chunkFile]
                           /\ index' = read_index(indexFile)
                           /\ chunks' = pickle_load([kind |-> "pickle", items |-> chunkFile.bytes])
                           /\ pc' = "loop"
                      ELSE /\ fs' = IF wrote = "none"
                                    THEN [fs EXCEPT ![INDEX_FILE] = IF cut THEN cutFile ELSE @]
                                    ELSE [fs EXCEPT ![INDEX_FILE] = indexFile,
                                                    ![CHUNKS_FILE] = IF cut THEN cutFile ELSE @]
                           /\ pc' = "crashed"
                           /\ UNCHANGED <<index, chunks>>
    /\ run' = << [docs |-> <<>>] >>
    /\ UNCHANGED <<regulation_files, ri, regulation_text, extracted_mandates,
                   mandate_blocks, idx, findings, gap_analysis_findings,
                   all_regulations_data, report_file, indices, relevant_chunks,
                   context, calls, INDEX_FILE, CHUNKS_FILE, builds>>

\* The loop without the skip of lines 90-92: every file goes on to the
\* analyst.
ReadEveryRegulation ==
    /\ pc = "loop"
    /\ ri <= Len(regulation_files)
    /\ ri' = ri
    /\ pc' = "analyst"
    /\ regulation_text' = regulation_files[ri].text
    /\ UNCHANGED <<extracted_mandates, mandate_blocks, idx, findings,
                   gap_analysis_findings, calls>>
    /\ UNCHANGED <<regulation_files, all_regulations_data, report_file, index,
                   chunks, indices, relevant_chunks, context>>
    /\ UNCHANGED storeVars

\* Lines 75-92: the next file is read (SECMonitoringAgent.run); an
\* unreadable or empty one is skipped.
ReadRegulation ==
    /\ pc = "loop"
    /\ ri <= Len(regulation_files)
    /\ IF Falsy(regulation_files[ri].text)
       THEN /\ ri' = ri + 1
            /\ pc' = "loop"
            /\ UNCHANGED regulation_text
       ELSE /\ ri' = ri
            /\ pc' = "analyst"
            /\ regulation_text' = regulation_files[ri].text
    /\ UNCHANGED <<extracted_mandates, mandate_blocks, idx, findings,
                   gap_analysis_findings, calls>>
    /\ UNCHANGED <<regulation_files, all_regulations_data, report_file, index,
                   chunks, indices, relevant_chunks, context>>
    /\ UNCHANGED storeVars

\* RegulationAnalystAgent.run (lines 29-96), called at main.py line 95.
AnalystRun ==
    /\ pc = "analyst"
    /\ IF TooShort(regulation_text)
       THEN /\ extracted_mandates' = EmptyRegulationError
            /\ pc' = "audit"
            /\ calls' = calls
       ELSE \E outcome \in ChatOutcomes(AnalystReplies) :
               /\ calls' = Append(calls, [who |-> "analyst", op |-> "generate", idx |-> 0,
                                          outcome |-> outcome.kind,
                                          text |-> Truncated(regulation_text)])
               /\ IF outcome.kind = "exit"
                  THEN /\ pc' = "exited"
                       /\ UNCHANGED extracted_mandates
                  ELSE /\ pc' = "audit"
                       /\ extracted_mandates' = AnalystResult(outcome)
    /\ UNCHANGED <<regulation_files, ri, regulation_text, mandate_blocks, idx,
                   findings, gap_analysis_findings, all_regulations_data,
                   report_file, index, chunks, indices, relevant_chunks, context>>
    /\ UNCHANGED storeVars

\* InternalPolicyAuditorAgent.run up to its loop (lines 100-128).
AuditStart ==
    /\ pc = "audit"
    /\ LET early == EarlyResult(extracted_mandates)
           parsed == _parse_mandates(extracted_mandates)
       IN  IF early # NotEarly
           THEN /\ gap_analysis_findings' = early
                /\ pc' = "append"
                /\ UNCHANGED <<mandate_blocks, idx>>
           ELSE IF parsed = <<>>
           THEN /\ gap_analysis_findings' =
                      NoParsePrefix \o Prefix(extracted_mandates, RawOutputLen)
                /\ pc' = "append"
                /\ UNCHANGED <<mandate_blocks, idx>>
           ELSE /\ mandate_blocks' = parsed
                /\ idx' = 1
                /\ pc' = "mandate"
                /\ UNCHANGED gap_analysis_findings
    /\ UNCHANGED <<regulation_files, ri, regulation_text, extracted_mandates,
                   findings, all_regulations_data, report_file, index, chunks,
                   indices, relevant_chunks, context, calls>>
    /\ UNCHANGED storeVars

\* A retrieval that raises and leaves the context empty.
RetrievalWithoutFallback(mb) ==
    { [raised |-> TRUE, indices |-> <<>>, relevant_chunks |-> <<>>, context |-> <<>>] }

\* Lines 137-147: the retrieval for one mandate.  The embedding or the
\* search may raise; an IndexError of text_chunks[i] is caught the same way.
Retrieval(mb) ==
    { [raised |-> TRUE, indices |-> <<>>, relevant_chunks |-> <<>>,
       context |-> NoRelevantPolicies] }
    \cup
    { IF \A p \in 1..k : InRange(chunks, labels[p])
      THEN LET found == [p \in 1..k |-> getitem(chunks, labels[p])]
           IN  [raised |-> FALSE, indices |-> labels, relevant_chunks |-> found,
                context |-> join(SectionBreak, found)]
      ELSE [raised |-> TRUE, indices |-> labels, relevant_chunks |-> <<>>,
            context |-> NoRelevantPolicies]
        : labels \in search(index, encode(QueryText(mb)), k) }

\* One iteration of the loop of lines 130-222.
AuditMandate ==
    /\ pc = "mandate"
    /\ idx <= Len(mandate_blocks)
    /\ \E found \in Retrieval(mandate_blocks[idx]),
          outcome \in ChatOutcomes(AuditReplies) :
          /\ indices' = found.indices
          /\ relevant_chunks' = found.relevant_chunks
          /\ context' = found.context
          /\ calls' = calls \o
                << Call("auditor", "search", idx, IF found.raised THEN "raise" ELSE "return"),
                   Call("auditor", "generate", idx, outcome.kind) >>
          /\ IF outcome.kind = "exit"
             THEN /\ pc' = "exited"
                  /\ UNCHANGED <<findings, idx>>
             ELSE /\ findings' = Append(findings, Finding(idx, mandate_blocks[idx], outcome))
                  /\ idx' = idx + 1
                  /\ pc' = "mandate"
    /\ UNCHANGED <<regulation_files, ri, regulation_text, extracted_mandates,
                   mandate_blocks, gap_analysis_findings, all_regulations_data,
                   report_file, index, chunks>>
    /\ UNCHANGED storeVars

\* Line 224
AuditReturn ==
    /\ pc = "mandate"
    /\ idx > Len(mandate_blocks)
    /\ gap_analysis_findings' = join(<< NL, NL >>, findings)
    /\ pc' = "append"
    /\ indices' = <<>>
    /\ relevant_chunks' = <<>>
    /\ context' = <<>>
    /\ UNCHANGED <<regulation_files, ri, regulation_text, extracted_mandates,
                   mandate_blocks, idx, findings, all_regulations_data,
                   report_file, index, chunks, calls>>
    /\ UNCHANGED storeVars

\* main.py lines 104-124: the regulation's record is kept.  No file of the
\* folder was downloaded by this run, so every record takes the title, url
\* and date of lines 110-112.
AppendRegulation ==
    /\ pc = "append"
    /\ all_regulations_data' =
          Append(all_regulations_data,
                 [title |-> << Words(len(regulation_files[ri].name) - 4) >>,
                  url |-> << Lit("URL not available (processed from local file)", 45) >>,
                  date |-> << Lit("Date not available", 18) >>,
                  file_name |-> regulation_files[ri].name,
                  mandates |-> extracted_mandates,
                  gap_analysis |-> gap_analysis_findings])
    /\ ri' = ri + 1
    /\ pc' = "loop"
    /\ UNCHANGED <<regulation_files, report_file, index, chunks, indices,
                   relevant_chunks, context>>
    /\ LoopLocalsReset
    /\ UNCHANGED storeVars

\* The check of line 127 made on the files found instead of the records kept.
NoneFound(data, files) == files = <<>>

\* main.py line 127: "if not all_regulations_data".
NoneProcessed(data, files) == data = <<>>

\* main.py lines 126-129: nothing was processed, no report.
NoReport ==
    /\ pc = "loop"
    /\ ri > Len(regulation_files)
    /\ NoneProcessed(all_regulations_data, regulation_files)
    /\ pc' = "done"
    /\ UNCHANGED <<regulation_files, ri, regulation_text, extracted_mandates,
                   mandate_blocks, idx, findings, gap_analysis_findings,
                   all_regulations_data, report_file, index, chunks, indices,
                   relevant_chunks, context, calls>>
    /\ UNCHANGED storeVars

\* ---- ComplianceReportAgent

ReportReplies ==
    { << Words(400) >>, << Words(20) >>, << NL, Words(90), NL, NL >>, <<>>, None,
      TimedOut }

Rule == Lit("=", 80)
Dashes == Lit("-", 80)

max_findings_length == 150000

\* run_consolidated lines 296-317: the findings of every regulation, joined.
consolidated_findings(data) ==
    join(<< NL, NL >>,
         [i \in 1..Len(data) |->
            << NL, Rule, NL, Lit("REGULATION ", 11), Lit(ToString(i), 1), Lit(": ", 2) >>
            \o data[i].title
            \o << NL, Rule, NL, Lit("Source: ", 8) >> \o data[i].url
            \o << NL, Lit("Date: ", 6) >> \o data[i].date
            \o << NL, Lit("File: ", 6) >> \o data[i].file_name
            \o << NL, NL, Lit("EXTRACTED MANDATES:", 19), NL, Dashes, NL >>
            \o data[i].mandates
            \o << NL, NL, Lit("GAP ANALYSIS FINDINGS:", 22), NL, Dashes, NL >>
            \o data[i].gap_analysis \o << NL >>])

\* Lines 319-323: what of them is placed in the prompt.
PromptFindings(data) ==
    IF len(consolidated_findings(data)) > max_findings_length
    THEN Prefix(consolidated_findings(data), max_findings_length)
         \o << NL, NL, Lit("[...Additional findings truncated...]", 37) >>
    ELSE consolidated_findings(data)

\* Line 419: one line per regulation.
RegulationLines(data) ==
    [i \in 1..Len(data) |->
        << Lit(ToString(i), 1), Lit(". ", 2) >> \o data[i].title
        \o << Lit(" - ", 3) >> \o data[i].file_name]

\* Lines 416-421
MinimalSummary(data) ==
    << Lit("ERROR: Could not generate comprehensive report.", 47), NL, NL,
       Lit("Summary of regulations analyzed:", 32), NL >>
    \o join(<< NL >>, RegulationLines(data))
    \o << NL, NL, Lit("Please review the detailed findings in the appendices below.", 60) >>

MinReportLen == 100

\* Lines 411-430: the result for an outcome of llm_chat that is not exit().
run_consolidated(data, outcome) ==
    IF outcome.kind = "raise"
    THEN << ERROR_WORD, Lit(" generating consolidated report: ", 33) >> \o outcome.val
    ELSE IF Falsy(outcome.val) \/ len(strip(outcome.val)) < MinReportLen
         THEN MinimalSummary(data)
         ELSE outcome.val

\* The parts save_consolidated_report_as_text writes, in the order of its
\* f.write calls (lines 442-497).
ReportHeader ==
    << Rule, NL, Lit("CONSOLIDATED COMPLIANCE GAP ANALYSIS REPORT", 43), NL,
       Lit("Multi-Regulation Assessment", 27), NL, Rule, NL, NL >>

ReportMetadata(data, timestamp) ==
    << Lit("Report Date:           ", 23), Lit("(now)", 28), NL,
       Lit("Regulations Analyzed:  ", 23), Lit(ToString(Len(data)), 1), NL,
       Lit("Analysis ID:           ", 23) >> \o timestamp
    \o << NL, Lit("Generated By:          AI Compliance Analysis System v1.0", 57), NL,
          NL, Rule, NL, NL >>

RegulationsCovered(data) ==
    << Lit("REGULATIONS COVERED IN THIS REPORT:", 35), NL, Dashes, NL >>
    \o join(<<>>,
            [i \in 1..Len(data) |->
               << Lit(ToString(i), 1), Lit(". ", 2) >> \o data[i].title
               \o << NL, Lit("   File: ", 9) >> \o data[i].file_name
               \o << NL, Lit("   Date: ", 9) >> \o data[i].date
               \o << NL, Lit("   URL:  ", 9) >> \o data[i].url \o << NL, NL >>])
    \o << Rule, NL, NL >>

Appendix(data, i) ==
    << NL, Rule, NL, Lit("APPENDIX ", 9), Lit(ToString(i), 1), Lit(": ", 2) >>
    \o data[i].title
    \o << NL, Rule, NL, NL, Lit("Source:     ", 12) >> \o data[i].url
    \o << NL, Lit("Date:       ", 12) >> \o data[i].date
    \o << NL, Lit("File:       ", 12) >> \o data[i].file_name
    \o << NL, NL, Dashes, NL, Lit("EXTRACTED MANDATES:", 19), NL, Dashes, NL, NL >>
    \o data[i].mandates
    \o << NL, NL, Dashes, NL, Lit("GAP ANALYSIS FINDINGS:", 22), NL, Dashes, NL, NL >>
    \o data[i].gap_analysis \o << NL, NL >>

\* The appendix that repeats what the prompt was given.
AppendicesOfPrompt(data) ==
    << NL, NL, Rule, NL, Lit("APPENDIX: DETAILED FINDINGS BY REGULATION", 41), NL,
       Rule, NL, NL >>
    \o PromptFindings(data)

\* Lines 469-492
Appendices(data) ==
    << NL, NL, Rule, NL, Lit("APPENDIX: DETAILED FINDINGS BY REGULATION", 41), NL,
       Rule, NL, NL >>
    \o join(<<>>, [i \in 1..Len(data) |-> Appendix(data, i)])

ReportFooter == << NL, Rule, NL, Lit("END OF REPORT", 13), NL, Rule, NL >>

\* The content of the file once every write of lines 442-497 is done.
save_consolidated_report_as_text(report_text, data, timestamp) ==
    ReportHeader \o ReportMetadata(data, timestamp) \o RegulationsCovered(data)
    \o report_text \o Appendices(data) \o ReportFooter

\* main.py line 145: datetime.now().strftime("%Y%m%d_%H%M%S")
now_timestamp == << Lit("%Y%m%d_%H%M%S", 15) >>

\* main.py lines 131-154: the report is generated and saved.  The open or a
\* write of the file may raise (lines 501-505 raise again, which ends main):
\* the file is then missing or stops after some write.
WriteReport ==
    /\ pc = "loop"
    /\ ri > Len(regulation_files)
    /\ ~NoneProcessed(all_regulations_data, regulation_files)
    /\ \E outcome \in ChatOutcomes(ReportReplies), saved \in {"return", "raise", "cut"} :
          LET data == all_regulations_data
              warned == IF len(consolidated_findings(data)) > max_findings_length
                        THEN << Call("report", "truncate", 0, "return") >> ELSE <<>>
              final_report == run_consolidated(data, outcome)
              timestamp == now_timestamp
          IN  IF outcome.kind = "exit"
              THEN /\ saved = "return"
                   /\ pc' = "exited"
                   /\ calls' = calls \o warned
                                 \o << Call("report", "generate", 0, outcome.kind) >>
                   /\ UNCHANGED report_file
              ELSE /\ calls' = calls \o warned
                                 \o << Call("report", "generate", 0, outcome.kind),
                                       Call("report", "save", 0, saved) >>
                   /\ pc' = IF saved = "return" THEN "done" ELSE "crashed"
                   /\ report_file' =
                         CASE saved = "return" ->
                                save_consolidated_report_as_text(final_report, data, timestamp)
                           [] saved = "cut" -> ReportHeader
                           [] OTHER -> None
    /\ UNCHANGED <<regulation_files, ri, regulation_text, extracted_mandates,
                   mandate_blocks, idx, findings, gap_analysis_findings,
                   all_regulations_data, index, chunks, indices,
                   relevant_chunks, context>>
    /\ UNCHANGED storeVars

Next ==
    \/ SetupStore
    \/ ReadRegulation
    \/ AnalystRun
    \/ AuditStart
    \/ AuditMandate
    \/ AuditReturn
    \/ AppendRegulation
    \/ NoReport
    \/ WriteReport

---------------------------------------------------------------------------
(* create_vector_store / load_vector_store as steps, and the analyze       *)
(* handler of src/app.py that calls them                                   *)

MaxBuilds == 2
MaxParas == 2
MaxStamp == 2

INDEX_NAME == "faiss_index.bin"
CHUNKS_NAME == "chunks.pkl"

\* os.path.join(dir, name).  Directory 0 is the default "vector_store" of
\* document_processor; directory t > 0 is the per-run
\* TEMP_VECTOR_STORE_PATH/vector_store_<run_id> of the run stamped t.
Path(dir, name) == [dir |-> dir, name |-> name]
Paths == { Path(d, n) : d \in 0..MaxStamp, n \in {INDEX_NAME, CHUNKS_NAME} }

\* File contents.  build names the create_vector_store call that wrote the
\* file last and writers every call that ever wrote it (both are history,
\* not data the code reads).
Absent == [kind |-> "absent", bytes |-> <<>>, build |-> 0, writers |-> {}]
Written(old, data, b) ==
    [kind |-> data.kind,
     bytes |-> IF data.kind = "faiss" THEN data.bytes ELSE data.items,
     build |-> b, writers |-> old.writers \cup {b}]
\* A write that failed after the file was opened: the file is cut short.
CutShort(old, b) ==
    [kind |-> "truncated", bytes |-> <<>>, build |-> b, writers |-> old.writers \cup {b}]
AsIndexFile(file) == [kind |-> "faiss", bytes |-> file.bytes]
AsPickleFile(file) == [kind |-> "pickle", items |-> file.bytes]

\* os.path.exists(path)
exists(path) == fs[path].kind # "absent"

\* The internal documents of a build: one document whose text is a sequence
\* of 0..MaxParas paragraphs taken from two different paragraphs (so that a
\* paragraph may repeat), or an unreadable document.
ParagraphSeqs == UNION { [1..n -> {1, 2}] : n \in 0..MaxParas }
DocOf(ps) ==
    [name |-> DocName(1),
     text |-> join(<< NL, NL >>, [i \in 1..Len(ps) |-> Paragraph(ps[i])])]
StoreDocSets ==
    { << DocOf(ps) >> : ps \in ParagraphSeqs }
    \cup { << [name |-> DocName(1), text |-> None] >> }

NoStore == [ntotal |-> 0, xb |-> <<>>, id_map |-> <<>>]

\* The locals of one caller.
IdleRun(driver) ==
    [pc |-> IF driver = "app" THEN "start" ELSE "idle",
     driver |-> driver,
     run_id |-> 0,
     docs |-> <<>>,
     build |-> 0,           \* which create_vector_store call this is (history)
     chunks |-> <<>>,       \* create_vector_store's chunks
     index |-> NoStore,     \* create_vector_store's index
     created |-> FALSE,     \* the last create_vector_store call wrote both files
     got_index |-> NoStore, \* load_vector_store's result
     got_chunks |-> <<>>,
     got_from |-> << 0, 0 >>,  \* builds of the two files read (history)
     query |-> 0,           \* the chunk whose text was searched for
     labels |-> <<>>]       \* the labels the search returned

Set(r, fields) == run' = [run EXCEPT ![r] = fields]

\* A call of create_vector_store(docs, model) by a caller that is not the
\* UI: main.py line 31, or any later run of it.
CallCreate(r) ==
    /\ run[r].pc = "idle"
    /\ builds < MaxBuilds
    /\ \E docs \in StoreDocSets :
          Set(r, [IdleRun(run[r].driver) EXCEPT
                    !.pc = "create", !.docs = docs, !.build = builds + 1])
    /\ builds' = builds + 1
    /\ UNCHANGED <<fs, INDEX_FILE, CHUNKS_FILE>>
    /\ UNCHANGED pipeVars

\* A call of load_vector_store().
CallLoad(r) ==
    /\ run[r].pc = "idle"
    /\ Set(r, [run[r] EXCEPT !.pc = "load", !.got_index = NoStore,
                             !.got_chunks = <<>>, !.got_from = << 0, 0 >>,
                             !.query = 0, !.labels = <<>>])
    /\ UNCHANGED <<fs, INDEX_FILE, CHUNKS_FILE, builds>>
    /\ UNCHANGED pipeVars

\* Where a caller goes when create_vector_store returns or raises.
AfterCreate(r, raised) ==
    IF run[r].driver = "app"
    THEN (IF raised THEN "done" ELSE "load")
    ELSE "idle"

\* create_vector_store lines 36-52: the chunks and the index are built in
\* memory; no chunk, no store.
Build(r) ==
    /\ run[r].pc = "create"
    /\ LET found == load_and_chunk_pdfs(run[r].docs)
       IN  IF found = <<>>
           THEN Set(r, [run[r] EXCEPT !.pc = AfterCreate(r, FALSE)])
           ELSE Set(r, [run[r] EXCEPT !.pc = "write_index", !.chunks = found,
                                      !.index = BuildIndex(found)])
    /\ UNCHANGED <<fs, INDEX_FILE, CHUNKS_FILE, builds>>
    /\ UNCHANGED pipeVars

\* How a write of a file may end: written; or failed before the file was
\* opened (the old file stays); or failed after (the file is cut short).
WriteOutcomes == {"written", "refused", "cut"}

\* Lines 54-55: faiss.write_index(index, INDEX_FILE).
WriteIndex(r) ==
    /\ run[r].pc = "write_index"
    /\ \E outcome \in WriteOutcomes :
          /\ fs' = [fs EXCEPT ![INDEX_FILE] =
                      IF outcome = "written"
                      THEN Written(@, write_index(run[r].index), run[r].build)
                      ELSE IF outcome = "cut" THEN CutShort(@, run[r].build)
                      ELSE @]
          /\ Set(r, [run[r] EXCEPT !.pc = IF outcome = "written" THEN "write_chunks"
                                          ELSE AfterCreate(r, TRUE)])
    /\ UNCHANGED <<INDEX_FILE, CHUNKS_FILE, builds>>
    /\ UNCHANGED pipeVars

\* Lines 57-59: pickle.dump(chunks, open(CHUNKS_FILE, "wb")).
WriteChunks(r) ==
    /\ run[r].pc = "write_chunks"
    /\ \E outcome \in WriteOutcomes :
          /\ fs' = [fs EXCEPT ![CHUNKS_FILE] =
                      IF outcome = "written"
                      THEN Written(@, pickle_dump(run[r].chunks), run[r].build)
                      ELSE IF outcome = "cut" THEN CutShort(@, run[r].build)
                      ELSE @]
          /\ Set(r, [run[r] EXCEPT !.pc = AfterCreate(r, outcome # "written"),
                                   !.created = (outcome = "written")])
    /\ UNCHANGED <<INDEX_FILE, CHUNKS_FILE, builds>>
    /\ UNCHANGED pipeVars

\* Where a caller goes when load_vector_store raises or returns (None, None).
AfterNoLoad(r) == IF run[r].driver = "app" THEN "done" ELSE "idle"

\* load_vector_store lines 63-64.
LoadCheck(r) ==
    /\ run[r].pc = "load"
    /\ IF ~exists(INDEX_FILE) \/ ~exists(CHUNKS_FILE)
       THEN Set(r, [run[r] EXCEPT !.pc = AfterNoLoad(r)])
       ELSE Set(r, [run[r] EXCEPT !.pc = "read_index"])
    /\ UNCHANGED <<fs, INDEX_FILE, CHUNKS_FILE, builds>>
    /\ UNCHANGED pipeVars

\* Line 67: faiss.read_index(INDEX_FILE); a file cut short raises.
ReadIndex(r) ==
    /\ run[r].pc = "read_index"
    /\ IF fs[INDEX_FILE].kind # "faiss"
       THEN Set(r, [run[r] EXCEPT !.pc = AfterNoLoad(r)])
       ELSE Set(r, [run[r] EXCEPT !.pc = "read_chunks",
                                  !.got_index = read_index(AsIndexFile(fs[INDEX_FILE])),
                                  !.got_from = << fs[INDEX_FILE].build, 0 >>])
    /\ UNCHANGED <<fs, INDEX_FILE, CHUNKS_FILE, builds>>
    /\ UNCHANGED pipeVars

\* Lines 68-71: pickle.load(open(CHUNKS_FILE, "rb")); a file cut short raises.
ReadChunks(r) ==
    /\ run[r].pc = "read_chunks"
    /\ IF fs[CHUNKS_FILE].kind # "pickle"
       THEN Set(r, [run[r] EXCEPT !.pc = AfterNoLoad(r), !.got_index = NoStore,
                                  !.got_from = << 0, 0 >>])
       ELSE Set(r, [run[r] EXCEPT !.pc = "loaded",
                                  !.got_chunks = pickle_load(AsPickleFile(fs[CHUNKS_FILE])),
                                  !.got_from = << run[r].got_from[1], fs[CHUNKS_FILE].build >>])
    /\ UNCHANGED <<fs, INDEX_FILE, CHUNKS_FILE, builds>>
    /\ UNCHANGED pipeVars

\* agents.py lines 140-141 with the text of chunk i as the query.
SearchChunk(r) ==
    /\ run[r].pc = "loaded"
    /\ run[r].query = 0
    /\ \E i \in 1..Len(run[r].got_chunks) :
         \E found \in search(run[r].got_index, encode(run[r].got_chunks[i]), k) :
            Set(r, [run[r] EXCEPT !.query = i, !.labels = found])
    /\ UNCHANGED <<fs, INDEX_FILE, CHUNKS_FILE, builds>>
    /\ UNCHANGED pipeVars

\* The caller is done with the loaded store.
Release(r) ==
    /\ run[r].pc = "loaded"
    /\ run[r].driver = "api"
    /\ Set(r, [run[r] EXCEPT !.pc = "idle", !.got_index = NoStore,
                             !.got_chunks = <<>>, !.got_from = << 0, 0 >>,
                             !.query = 0, !.labels = <<>>])
    /\ UNCHANGED <<fs, INDEX_FILE, CHUNKS_FILE, builds>>
    /\ UNCHANGED pipeVars

PipeIdle ==
    /\ pc = "done"
    /\ regulation_files = <<>>
    /\ ri = 1
    /\ regulation_text = None
    /\ all_regulations_data = <<>>
    /\ report_file = None
    /\ index = NoStore
    /\ chunks = <<>>
    /\ LocalsInit

\* One caller of the two functions on the default path, nothing stored.
StoreInit ==
    /\ fs = [p \in Paths |-> Absent]
    /\ INDEX_FILE = Path(0, INDEX_NAME)
    /\ CHUNKS_FILE = Path(0, CHUNKS_NAME)
    /\ run = [r \in {1} |-> IdleRun("api")]
    /\ builds = 0
    /\ PipeIdle

StoreNext ==
    \/ CallCreate(1)
    \/ CallLoad(1)
    \/ Build(1)
    \/ WriteIndex(1)
    \/ WriteChunks(1)
    \/ LoadCheck(1)
    \/ ReadIndex(1)
    \/ ReadChunks(1)
    \/ SearchChunk(1)
    \/ Release(1)

\* Any sequence of create_vector_store and load_vector_store calls.
SpecStore == StoreInit /\ [][StoreNext]_vars

MaxDocs == 2

\* What load_and_chunk_pdfs may read from a document: nothing (it is
\* unreadable) or 0..MaxParas paragraphs set apart by blank lines; a
\* paragraph is plain text, white space only, or text with white space
\* around it.  paras keeps the paragraphs a text was written
\* from (history, not read by the code).
ChunkerTexts ==
    LET Kinds == { << Words(11) >>, << NL >>, << NL, Words(12), NL >> }
        ParaLists == UNION { [1..n -> Kinds] : n \in 0..MaxParas }
    IN  { [text |-> join(<< NL, NL >>, ps), paras |-> ps] : ps \in ParaLists }
        \cup { [text |-> None, paras |-> <<>>] }

\* create_vector_store about to be called on any list of 1..MaxDocs
\* documents, nothing stored.
ChunkerInit ==
    /\ fs = [p \in Paths |-> Absent]
    /\ INDEX_FILE = Path(0, INDEX_NAME)
    /\ CHUNKS_FILE = Path(0, CHUNKS_NAME)
    /\ \E n \in 1..MaxDocs :
          \E ts \in [1..n -> ChunkerTexts] :
             run = [r \in {1} |->
                      [IdleRun("api") EXCEPT
                          !.pc = "create", !.build = 1,
                          !.docs = [d \in 1..n |-> [name |-> DocName(d), text |-> ts[d].text,
                                                    paras |-> ts[d].paras]]]]
    /\ builds = 1
    /\ PipeIdle

\* load_and_chunk_pdfs as create_vector_store applies it (lines 41-52).
SpecChunker == ChunkerInit /\ [][Build(1)]_vars

Runs == {1, 2}

\* app.py lines 199-223 of one session's analysis: run_id is the wall clock
\* read to the second, so a later session gets the same or a later stamp.
StartRun(r) ==
    /\ run[r].pc = "start"
    /\ \E t \in 1..MaxStamp, docs \in StoreDocSets :
          /\ \A q \in Runs : run[q].run_id <= t
          /\ Set(r, [run[r] EXCEPT !.pc = "set_index", !.run_id = t,
                                   !.docs = docs, !.build = builds + 1])
    /\ builds' = builds + 1
    /\ UNCHANGED <<fs, INDEX_FILE, CHUNKS_FILE>>
    /\ UNCHANGED pipeVars

\* Line 225: document_processor.INDEX_FILE = <the run's index path>.
SetIndexFile(r) ==
    /\ run[r].pc = "set_index"
    /\ INDEX_FILE' = Path(run[r].run_id, INDEX_NAME)
    /\ Set(r, [run[r] EXCEPT !.pc = "set_chunks"])
    /\ UNCHANGED <<fs, CHUNKS_FILE, builds>>
    /\ UNCHANGED pipeVars

\* Line 226: document_processor.CHUNKS_FILE = <the run's chunk path>.
SetChunksFile(r) ==
    /\ run[r].pc = "set_chunks"
    /\ CHUNKS_FILE' = Path(run[r].run_id, CHUNKS_NAME)
    /\ Set(r, [run[r] EXCEPT !.pc = "create"])
    /\ UNCHANGED <<fs, INDEX_FILE, builds>>
    /\ UNCHANGED pipeVars

\* Two sessions of the UI in one server process, nothing stored yet; the
\* module globals hold the paths document_processor was imported with.
RunsInit ==
    /\ fs = [p \in Paths |-> Absent]
    /\ INDEX_FILE = Path(0, INDEX_NAME)
    /\ CHUNKS_FILE = Path(0, CHUNKS_NAME)
    /\ run = [r \in Runs |-> IdleRun("app")]
    /\ builds = 0
    /\ PipeIdle

RunsNext ==
    \E r \in Runs :
       \/ StartRun(r)
       \/ SetIndexFile(r)
       \/ SetChunksFile(r)
       \/ Build(r)
       \/ WriteIndex(r)
       \/ WriteChunks(r)
       \/ LoadCheck(r)
       \/ ReadIndex(r)
       \/ ReadChunks(r)

\* Two concurrent analysis runs of the UI.
SpecRuns == RunsInit /\ [][RunsNext]_vars

AgentsNext ==
    \/ AnalystRun
    \/ AuditStart
    \/ AuditMandate
    \/ AuditReturn

\* The agents on any input.
Spec == AgentsInit /\ [][AgentsNext]_vars

\* InternalPolicyAuditorAgent.run called on a numbered list, up to the
\* parsing of it.
ParserInit ==
    /\ pc = "audit"
    /\ regulation_files = <<>>
    /\ ri = 1
    /\ regulation_text = None
    /\ all_regulations_data = <<>>
    /\ report_file = None
    /\ LoadedStore({MaxChunks})
    /\ \/ extracted_mandates \in NumberedLists
       \/ \E n \in 1..MaxLines : \E ls \in [1..n -> FreeLines] :
             extracted_mandates = join(<< NL >>, ls)
    /\ mandate_blocks = <<>>
    /\ idx = 0
    /\ findings = <<>>
    /\ gap_analysis_findings = None
    /\ indices = <<>>
    /\ relevant_chunks = <<>>
    /\ context = <<>>
    /\ calls = NoCalls
    /\ StoreIdle

SpecParser == ParserInit /\ [][AuditStart]_vars

\* The orchestrator over 0..MaxRegs regulation files.
SpecMain == MainInit /\ [][Next]_vars

---------------------------------------------------------------------------
(* SECRulemakingMonitor (src/sec_rule_downloader.py)                       *)

\* The rule pages of the site, each named by its url, and the longest list
\* get_latest_rulemakings returns here (the code asks for at most 5).
MaxRules == 2

\* storage_path / "processed_rules.json" and storage_path / <the last part of
\* the PDF's url>, one PDF per rule.
processed_rules_file == "processed_rules.json"
PdfPath(u) == "rule" \o ToString(u) \o ".pdf"

\* The monitor and the locals of its process_new_rules call: run[1].
Monitor(processed, rules, i, new) ==
    << [processed_rules |-> processed, rulemakings |-> rules, i |-> i,
        new_rules_processed |-> new] >>

\* A storage path that holds nothing yet, and no monitor.
MonitorInit ==
    /\ pc = "idle"
    /\ fs = [p \in {processed_rules_file} \cup { PdfPath(u) : u \in 1..MaxRules } |->
               [kind |-> "absent", bytes |-> <<>>]]
    /\ run = Monitor(<<>>, <<>>, 0, <<>>)
    /\ regulation_files = <<>>
    /\ ri = 1
    /\ regulation_text = None
    /\ all_regulations_data = <<>>
    /\ report_file = None
    /\ index = [ntotal |-> 0, xb |-> <<>>, id_map |-> <<>>]
    /\ chunks = <<>>
    /\ LocalsInit
    /\ INDEX_FILE = <<>>
    /\ CHUNKS_FILE = <<>>
    /\ builds = 0

\* What a monitor step leaves alone.
MonitorFrame ==
    UNCHANGED <<regulation_files, ri, regulation_text, extracted_mandates,
                mandate_blocks, idx, findings, gap_analysis_findings,
                all_regulations_data, report_file, index, chunks, indices,
                relevant_chunks, context, INDEX_FILE, CHUNKS_FILE, builds>>

\* Lines 21-37: a process builds its monitor (main.py line 42, app.py line
\* 246), which loads the list of processed rules: [] when the file is not
\* there, the list json.dump wrote (a list of url strings, which json.load
\* gives back as written) when it is whole; json.load raises on a file that
\* a failed save cut short, and the process ends.
MonitorNew ==
    /\ pc \in {"idle", "returned", "crashed"}
    /\ IF ~exists(processed_rules_file)
       THEN /\ run' = Monitor(<<>>, <<>>, 0, <<>>)
            /\ pc' = "fetch"
       ELSE IF fs[processed_rules_file].kind = "json"
       THEN /\ run' = Monitor(fs[processed_rules_file].bytes, <<>>, 0, <<>>)
            /\ pc' = "fetch"
       ELSE /\ run' = Monitor(<<>>, <<>>, 0, <<>>)
            /\ pc' = "crashed"
    /\ calls' = NoCalls
    /\ UNCHANGED fs
    /\ MonitorFrame

\* Lines 189-192 and 44-93: the page is fetched; it lists any of the rules,
\* in any order, a rule possibly twice.  An exception of the request is
\* caught nowhere and ends the process.
get_latest_rulemakings ==
    /\ pc = "fetch"
    /\ \/ /\ pc' = "crashed"
          /\ UNCHANGED run
       \/ \E n \in 0..MaxRules : \E listed \in [1..n -> 1..MaxRules] :
             /\ run' = Monitor(run[1].processed_rules,
                               [j \in 1..n |-> [url |-> listed[j]]], 1, <<>>)
             /\ pc' = "rules"
    /\ UNCHANGED <<fs, calls>>
    /\ MonitorFrame

\* Lines 39-42: open(..., 'w') empties the file before json.dump writes the
\* list; the open may fail, which leaves the file as it was, and the write
\* may fail, which leaves it cut short.
_save_processed_rules(file, processed_rules, outcome) ==
    IF outcome = "return" THEN [kind |-> "json", bytes |-> processed_rules]
    ELSE IF outcome = "cut" THEN [kind |-> "truncated", bytes |-> <<>>]
    ELSE file

\* Lines 141-157: the request may raise, which leaves the folder as it was;
\* the file is written in place, and a write that fails leaves it cut short.
download_pdf(file, outcome) ==
    IF outcome = "return" THEN [kind |-> "pdf", bytes |-> <<>>]
    ELSE IF outcome = "cut" THEN [kind |-> "truncated", bytes |-> <<>>]
    ELSE file

\* Lines 194-249: one iteration of the loop of process_new_rules.  link is
\* what extract_pdf_link does (it raises, returns None or returns the PDF's
\* url), got what download_pdf does, paragraph what extract_first_paragraph
\* returns, saved what _save_processed_rules does.
ProcessRule ==
    /\ pc = "rules"
    /\ run[1].i <= Len(run[1].rulemakings)
    /\ LET self == run[1]
           rule == self.rulemakings[self.i]
           rule_id == rule.url
           pdf == PdfPath(rule_id)
       IN  IF \E p \in DOMAIN self.processed_rules : self.processed_rules[p] = rule_id
           THEN /\ run' = Monitor(self.processed_rules, self.rulemakings, self.i + 1,
                                  self.new_rules_processed)
                /\ UNCHANGED <<fs, calls>>
           ELSE \/ \E link \in {"raise", "none"} :
                      /\ calls' = Append(calls, Call("monitor", "extract_pdf_link",
                                                     rule_id, link))
                      /\ run' = Monitor(self.processed_rules, self.rulemakings,
                                        self.i + 1, self.new_rules_processed)
                      /\ UNCHANGED fs
                \/ \E got \in {"raise", "cut"} :
                      /\ calls' = calls \o
                            << Call("monitor", "extract_pdf_link", rule_id, "return"),
                               Call("monitor", "download_pdf", rule_id, got) >>
                      /\ fs' = [fs EXCEPT ![pdf] = download_pdf(@, got)]
                      /\ run' = Monitor(self.processed_rules, self.rulemakings,
                                        self.i + 1, self.new_rules_processed)
                \/ \E paragraph \in { None, << Words(120) >> },
                      saved \in {"return", "raise", "cut"} :
                      LET rule_data == [url |-> rule_id, pdf_path |-> pdf,
                                        first_paragraph |-> paragraph]
                          processed_rules == Append(self.processed_rules, rule_id)
                      IN  /\ calls' = calls \o
                                << Call("monitor", "extract_pdf_link", rule_id, "return"),
                                   Call("monitor", "download_pdf", rule_id, "return"),
                                   Call("monitor", "_save_processed_rules", rule_id, saved) >>
                          /\ fs' = [fs EXCEPT
                                      ![pdf] = download_pdf(@, "return"),
                                      ![processed_rules_file] =
                                          _save_processed_rules(@, processed_rules, saved)]
                          /\ run' = Monitor(processed_rules, self.rulemakings, self.i + 1,
                                            Append(self.new_rules_processed, rule_data))
    /\ pc' = "rules"
    /\ MonitorFrame

\* Line 251: process_new_rules returns new_rules_processed.
MonitorReturn ==
    /\ pc = "rules"
    /\ run[1].i > Len(run[1].rulemakings)
    /\ pc' = "returned"
    /\ UNCHANGED <<fs, run, calls>>
    /\ MonitorFrame

\* One process after another on one storage path, each building its
\* monitor and calling process_new_rules once.
SpecMonitor ==
    MonitorInit
    /\ [][MonitorNew \/ get_latest_rulemakings \/ ProcessRule \/ MonitorReturn]_vars

---------------------------------------------------------------------------
(* Properties of the agents                                                *)

AuditorCalls == { i \in 1..Len(calls) : calls[i].who = "auditor" }
GenerateCalls == { i \in 1..Len(calls) : calls[i].op = "generate" }

\* Entry e is the finding or the error record of mandate i.
IsEntryFor(e, i, mb) ==
    \E outcome \in ChatOutcomes(AuditReplies) :
       outcome.kind # "exit" /\ e = Finding(i, mb, outcome)

\* InternalPolicyAuditorAgent.run is over: it returned, or the process ended
\* inside it.
AuditOver ==
    \/ pc = "append"
    \/ pc = "exited" /\ extracted_mandates # None

\* The extraction succeeded: extracted_mandates is the endpoint's answer to
\* the extraction prompt, and that answer is no error message of the client.
ExtractionSucceeded ==
    /\ \E c \in 1..Len(calls) : calls[c].who = "analyst" /\ calls[c].outcome = "return"
    /\ extracted_mandates \in AnalystReplies \ { TimedOut, ErrorFromAPI }

\* C1: for a mandates text that _parse_mandates turns into M >= 1 mandates,
\* InternalPolicyAuditorAgent.run produces exactly M entries, the i-th being
\* the finding or the error record of the i-th mandate, and returns them
\* joined in that order, whatever the outcomes of the searches and the
\* generation calls.
C1_OneEntryPerMandate ==
    LET parsed == _parse_mandates(extracted_mandates)
    IN  (AuditOver /\ ExtractionSucceeded /\ Len(parsed) >= 1)
        => /\ Len(findings) = Len(parsed)
           /\ \A i \in 1..Len(parsed) : IsEntryFor(findings[i], i, parsed[i])
           /\ gap_analysis_findings = join(<< NL, NL >>, findings)

\* C2: when the generation call of mandate i raises, the loop still ends
\* with an error record for mandate i and with a generation call made for
\* every later mandate: no failure ends the loop early.
C2_FailureIsolation ==
    \A c \in AuditorCalls :
       (calls[c].op = "generate" /\ calls[c].outcome \in {"raise", "exit"} /\ pc # "mandate")
       => /\ Len(findings) = Len(mandate_blocks)
          /\ \E e \in { KeyErrorToken, JSONDecodeError } :
                findings[calls[c].idx] =
                   error_record(calls[c].idx, mandate_blocks[calls[c].idx], e)
          /\ \A j \in (calls[c].idx + 1)..Len(mandate_blocks) :
                \E d \in AuditorCalls : calls[d].op = "generate" /\ calls[d].idx = j

\* RegulationAnalystAgent.run returned one of its error results: the
\* too-short input, the invalid response, an error response of the
\* endpoint, or the exception of the call.
AnalystReturnedError ==
    /\ pc \in {"audit", "mandate", "append"}
    /\ \/ extracted_mandates = EmptyRegulationError
       \/ extracted_mandates = InvalidAnalysisError
       \/ extracted_mandates \in { TimedOut, ErrorFromAPI }
       \/ \E c \in 1..Len(calls) : calls[c].who = "analyst" /\ calls[c].outcome = "raise"

\* C3: given an error result of RegulationAnalystAgent.run,
\* InternalPolicyAuditorAgent.run returns the identical text and makes no
\* embedding, search or generation call.
C3_ErrorPassThrough ==
    AnalystReturnedError
    => /\ AuditorCalls = {}
       /\ mandate_blocks = <<>>
       /\ pc = "append" => gap_analysis_findings = extracted_mandates

\* C4: RegulationAnalystAgent.run given a text that is None, empty or
\* shorter than 100 characters after trimming returns the descriptive error,
\* makes no generation call, and no mandate comes of it.
C4_TooShortFailsFast ==
    (/\ pc # "analyst"
     /\ \/ regulation_text = None
        \/ regulation_text = <<>>
        \/ len(strip(regulation_text)) < MinRegulationLen)
    => /\ extracted_mandates = EmptyRegulationError
       /\ GenerateCalls = {}
       /\ mandate_blocks = <<>>
       /\ findings = <<>>
       /\ pc \in {"audit", "append"}
       /\ pc = "append" => gap_analysis_findings = EmptyRegulationError

\* C4's case: a text of 100 characters whose trimmed length is below 100 was
\* given and the error came back.
C4_Witness ==
    /\ pc = "append"
    /\ regulation_text # None
    /\ len(regulation_text) >= MinRegulationLen
    /\ len(strip(regulation_text)) < MinRegulationLen
    /\ gap_analysis_findings = EmptyRegulationError

\* C5: no failure of the generation collaborator (the authentication
\* request included) ends the orchestrator; a failed call shows as an error
\* text in the regulation's mandates or in the mandate's finding.
C5_GenerationFailureContained ==
    /\ pc # "exited"
    /\ \A c \in GenerateCalls :
          (calls[c].outcome = "raise" /\ pc = "append")
          => IF calls[c].who = "analyst"
             THEN Contains(extracted_mandates, "Error")
             ELSE Contains(findings[calls[c].idx], "**Error:** Could not complete analysis - ")

\* A caller holds the pair load_vector_store returned.
Loaded(r) == run[r].pc = "loaded"

\* The two files the pair was read from were written by one
\* create_vector_store call.
FromOneBuild(r) == run[r].got_from[1] = run[r].got_from[2]

\* C6: of two interleaved analysis runs of the UI, each obtains from
\* load_vector_store the pair its own create_vector_store call built, and
\* no index or chunk file is written by both runs.
C6_RunsUseOwnStore ==
    /\ \A r \in DOMAIN run :
          Loaded(r) => run[r].got_from = << run[r].build, run[r].build >>
    /\ \A p \in DOMAIN fs : Cardinality(fs[p].writers) <= 1

\* C7: load_vector_store never returns an index written by one
\* create_vector_store call together with chunks written by another.
C7_PairFromOneBuild ==
    \A r \in DOMAIN run : Loaded(r) => FromOneBuild(r)

\* The last create_vector_store call of the caller wrote both files, and
\* the caller has loaded the store since.
ReloadedAfterCreate(r) == Loaded(r) /\ run[r].created

\* C8: after a successful create_vector_store over n chunks,
\* load_vector_store returns the built chunk list, same texts in the same
\* order, and an index of exactly n vectors with ids 0..n-1, the vector of
\* id i being the embedding of chunks[i].
C8_RoundTrip ==
    \A r \in DOMAIN run :
       ReloadedAfterCreate(r)
       => LET n == Len(run[r].chunks)
          IN  /\ n >= 1
              /\ run[r].chunks = load_and_chunk_pdfs(run[r].docs)
              /\ run[r].got_chunks = run[r].chunks
              /\ run[r].got_index.ntotal = n
              /\ Len(run[r].got_index.xb) = n
              /\ run[r].got_index.id_map = [i \in 1..n |-> i - 1]
              /\ \A i \in 1..n :
                    run[r].got_index.xb[i] = encode(run[r].chunks[i])

C8_Witness ==
    \E r \in DOMAIN run :
       /\ ReloadedAfterCreate(r)
       /\ Len(run[r].got_chunks) >= 2
       /\ run[r].got_chunks[1] # run[r].got_chunks[2]
       /\ run[r].build = MaxBuilds

\* A search with the text of a chunk of the reloaded store has returned.
SearchedOwnText(r) == ReloadedAfterCreate(r) /\ run[r].query # 0

\* Chunk i shares its embedding with another chunk of the list.
SharesEmbedding(list, i) ==
    \E j \in 1..Len(list) : j # i /\ encode(list[j]) = encode(list[i])

\* C9 as stated: the search with the text of chunk i returns id i first,
\* for every i.
C9_OwnIdOnTop ==
    \A r \in DOMAIN run :
       SearchedOwnText(r) => run[r].labels[1] = run[r].query - 1

\* C9: the search with the text of chunk i returns first the id of a stored
\* vector equal to the embedding of chunk i (distance 0), which is the id
\* of a chunk with the embedding of chunk i, and is id i itself when no
\* other chunk has that embedding.
C9_OwnTextIsNearest ==
    \A r \in DOMAIN run :
       SearchedOwnText(r)
       => LET i == run[r].query
              top == run[r].labels[1]
          IN  /\ top \in 0..(Len(run[r].got_chunks) - 1)
              /\ run[r].got_index.xb[top + 1] = encode(run[r].got_chunks[i])
              /\ encode(run[r].got_chunks[top + 1]) = encode(run[r].got_chunks[i])
              /\ ~SharesEmbedding(run[r].got_chunks, i) => top = i - 1

C9_Witness ==
    \E r \in DOMAIN run :
       /\ SearchedOwnText(r)
       /\ Len(run[r].got_chunks) >= 2
       /\ ~SharesEmbedding(run[r].got_chunks, run[r].query)
       /\ run[r].query = 2
       /\ run[r].labels[1] = 1

\* The paragraphs of the readable documents that hold text, as pairs
\* << document, paragraph >>.
TextParagraphs(docs) ==
    { dp \in (1..Len(docs)) \X (1..MaxParas) :
         /\ docs[dp[1]].text # None
         /\ dp[2] <= Len(docs[dp[1]].paras)
         /\ strip(docs[dp[1]].paras[dp[2]]) # <<>> }

\* The place of a paragraph among those of TextParagraphs, in document
\* order and, within a document, in paragraph order.
PlaceOf(docs, dp) ==
    Cardinality({ e \in TextParagraphs(docs) :
                    e[1] < dp[1] \/ (e[1] = dp[1] /\ e[2] <= dp[2]) })

\* load_and_chunk_pdfs has returned.
Chunked == run[1].pc # "create"

\* C11: load_and_chunk_pdfs returns one chunk per paragraph with text of
\* the readable documents, each the marker 'Source: <file name>', a blank
\* line and the trimmed paragraph, in document order and within a document
\* in paragraph order.
C11_OneChunkPerParagraph ==
    Chunked
    => LET docs == run[1].docs
           out == run[1].chunks
       IN  /\ Len(out) = Cardinality(TextParagraphs(docs))
           /\ \A dp \in TextParagraphs(docs) :
                 out[PlaceOf(docs, dp)] =
                    << Lit("Source: ", 8) >> \o docs[dp[1]].name \o << NL, NL >>
                    \o strip(docs[dp[1]].paras[dp[2]])

C11_Witness ==
    /\ Chunked
    /\ Len(run[1].docs) = MaxDocs
    /\ \A d \in 1..MaxDocs : \E dp \in TextParagraphs(run[1].docs) : dp[1] = d
    /\ \E d \in 1..MaxDocs : \E i \in 1..Len(run[1].docs[d].paras) :
          strip(run[1].docs[d].paras[i]) = <<>>
    /\ Len(run[1].chunks) >= 3

\* The chunks that carry the file name of document d.
ChunksFrom(out, docs, d) ==
    { i \in 1..Len(out) : SubSeq(out[i], 2, 1 + Len(docs[d].name)) = docs[d].name }

\* C12: a document whose text extraction fails contributes no chunk and
\* does not stop the build: every other document, before and after it,
\* still yields its chunks, in document order.
C12_UnreadableSkipped ==
    (Chunked /\ \E d \in 1..Len(run[1].docs) : run[1].docs[d].text = None)
    => LET docs == run[1].docs
           out == run[1].chunks
       IN  /\ \A d \in 1..Len(docs) :
                 IF docs[d].text = None
                 THEN ChunksFrom(out, docs, d) = {}
                 ELSE Cardinality(ChunksFrom(out, docs, d)) =
                         Cardinality({ dp \in TextParagraphs(docs) : dp[1] = d })
           /\ \A d, e \in 1..Len(docs) :
                 d < e => \A i \in ChunksFrom(out, docs, d), j \in ChunksFrom(out, docs, e) : i < j
           /\ \A i \in 1..Len(out) : \E d \in 1..Len(docs) : i \in ChunksFrom(out, docs, d)

C12_Witness ==
    /\ Chunked
    /\ Len(run[1].docs) = MaxDocs
    /\ run[1].docs[1].text = None
    /\ Len(run[1].chunks) >= 2

\* The last create_vector_store call of the caller found no chunk and has
\* returned.
Aborted(r) ==
    /\ run[r].build > 0
    /\ run[r].pc \notin {"start", "set_index", "set_chunks", "create"}
    /\ run[r].chunks = <<>>

\* C13: when the documents yield no chunk, create_vector_store writes
\* neither file, and the load_vector_store call that follows returns the
\* absent value (it reads no file and returns no pair).
C13_NoChunksNoStore ==
    \A r \in DOMAIN run :
       Aborted(r)
       => /\ \A p \in DOMAIN fs : run[r].build \notin fs[p].writers
          /\ run[r].pc \notin {"read_index", "read_chunks", "loaded"}

\* C14: with no internal policy document at all, the orchestrator aborts
\* the run at its first step, before any regulation is read; nothing
\* follows an abort, so no report is written.
C14_NoDocsNoRun ==
    [][(pc = "start" /\ run[1].docs = <<>>) => (pc' = "aborted" /\ report_file' = None)]_vars

\* min(a, b)
\* C15: a report is generated, saved or present only if some regulation of
\* the folder was processed, that is, its text was read and its record kept;
\* when none was, run_consolidated and save_consolidated_report_as_text are
\* not called and there is no report file.
C15_ReportOnlyIfProcessed ==
    LET called == \E c \in DOMAIN calls : calls[c].who = "report"
        processed == { i \in DOMAIN regulation_files :
                          /\ ~Falsy(regulation_files[i].text)
                          /\ \E j \in DOMAIN all_regulations_data :
                                all_regulations_data[j].file_name = regulation_files[i].name }
    IN  (called \/ report_file # None) => processed # {}

\* A finished run that skipped an unreadable regulation, processed another
\* and wrote the report.
C15_Witness ==
    /\ pc = "done"
    /\ report_file # None
    /\ Len(all_regulations_data) = 1
    /\ \E i \in DOMAIN regulation_files : Falsy(regulation_files[i].text)
    /\ \E c \in DOMAIN calls : calls[c].who = "report" /\ calls[c].op = "save"

\* C16: whenever the generation output for the consolidated report is
\* missing (None, empty, or the call failed) or has fewer than 100
\* characters once trimmed, the report text run_consolidated returned, which
\* the saved file holds as its body, is the minimal summary of the run's
\* regulations; otherwise it is the generation output.
C16_MinimalSummaryWhenMissing ==
    (pc = "done" /\ report_file # None) =>
        \E outcome \in ChatOutcomes(ReportReplies), c \in DOMAIN calls :
            /\ calls[c].who = "report" /\ calls[c].op = "generate"
            /\ calls[c].outcome = outcome.kind
            /\ LET missing == \/ outcome.kind = "raise"
                              \/ Falsy(outcome.val)
                              \/ len(strip(outcome.val)) < MinReportLen
                   expected == IF missing THEN MinimalSummary(all_regulations_data)
                               ELSE outcome.val
               IN  report_file = save_consolidated_report_as_text(
                                    expected, all_regulations_data, now_timestamp)

\* C17: the saved report holds, in this order, the header, the metadata
\* (report date, number of regulations, run identifier), the list of the
\* regulations covered, the body run_consolidated returned, one appendix per
\* regulation in input order with the whole of its extracted mandates
\* followed by the whole of its findings, and the footer at its end; the
\* truncation of the findings placed in the prompt changes none of this.
C17_ReportLayout ==
    (pc = "done" /\ report_file # None) =>
        LET f == report_file
            data == all_regulations_data
            At(kind) == { p \in DOMAIN f : f[p].k = kind }
            Nth(S, i) == CHOOSE p \in S : Cardinality({ q \in S : q < p }) = i - 1
            Holds(text, lo, hi) ==
                \E s \in lo..hi : s + Len(text) - 1 <= hi
                                  /\ SubSeq(f, s, s + Len(text) - 1) = text
            title == At("CONSOLIDATED COMPLIANCE GAP ANALYSIS REPORT")
            date == At("Report Date:           ")
            count == At("Regulations Analyzed:  ")
            id == At("Analysis ID:           ")
            covered == At("REGULATIONS COVERED IN THIS REPORT:")
            head == At("APPENDIX: DETAILED FINDINGS BY REGULATION")
            mandates == At("EXTRACTED MANDATES:")
            gaps == At("GAP ANALYSIS FINDINGS:")
            footer == At("END OF REPORT")
            One(S) == CHOOSE p \in S : TRUE
        IN  /\ \A S \in {title, date, count, id, covered, head, footer} : Cardinality(S) = 1
            /\ One(title) < One(date) /\ One(date) < One(count) /\ One(count) < One(id)
            /\ One(id) < One(covered) /\ One(covered) < One(head) /\ One(head) < One(footer)
            /\ f[One(count) + 1] = Lit(ToString(Len(data)), 1)
            /\ Holds(now_timestamp, One(id) + 1, One(id) + Len(now_timestamp))
            /\ \A i \in DOMAIN data :
                  Holds(data[i].title \o << NL >>, One(covered), One(head))
            /\ \E outcome \in ChatOutcomes(ReportReplies) :
                  /\ outcome.kind # "exit"
                  /\ Holds(run_consolidated(data, outcome), One(covered), One(head) - 1)
            /\ Cardinality(mandates) = Len(data) /\ Cardinality(gaps) = Len(data)
            /\ \A i \in DOMAIN data :
                  LET m == Nth(mandates, i)
                      g == Nth(gaps, i)
                      end == IF i < Len(data) THEN Nth(mandates, i + 1) ELSE One(footer)
                  IN  /\ One(head) < m /\ m < g /\ g < end
                      /\ Holds(data[i].file_name, One(head), m)
                      /\ Holds(data[i].mandates, m + 1, g - 1)
                      /\ Holds(data[i].gap_analysis, g + 1, end - 1)
            /\ One(footer) = Len(f) - 3

\* A saved report of two regulations whose findings were cut at
\* max_findings_length for the prompt.
C17_Witness ==
    /\ pc = "done"
    /\ report_file # None
    /\ Len(all_regulations_data) = 2
    /\ len(consolidated_findings(all_regulations_data)) > max_findings_length
    /\ \E c \in DOMAIN calls : calls[c].who = "report" /\ calls[c].op = "truncate"

\* C18: nothing the pipeline produces is empty: the text
\* RegulationAnalystAgent.run returned, the text
\* InternalPolicyAuditorAgent.run returned, the text run_consolidated
\* returns for any outcome of its generation call, the title of every
\* record of _parse_mandates, and so every text kept for the report.
C18_NothingEmpty ==
    LET NonEmpty(t) == t # None /\ len(t) > 0
    IN  /\ pc = "audit" => NonEmpty(extracted_mandates)
        /\ pc = "append" => NonEmpty(gap_analysis_findings)
        /\ \A i \in DOMAIN all_regulations_data :
              /\ NonEmpty(all_regulations_data[i].mandates)
              /\ NonEmpty(all_regulations_data[i].gap_analysis)
        /\ (pc = "loop" /\ ri > Len(regulation_files) /\ all_regulations_data # <<>>) =>
              \A outcome \in ChatOutcomes(ReportReplies) :
                 outcome.kind # "exit" =>
                    NonEmpty(run_consolidated(all_regulations_data, outcome))
        /\ \A i \in DOMAIN mandate_blocks : NonEmpty(mandate_blocks[i].title)

\* C19: from a numbered list of M blocks, each with its Mandate, Category,
\* Requirement and Specifics fields, _parse_mandates makes exactly M
\* records, the i-th with the title, category, requirement and specifics of
\* the i-th block: as the value of the function on the text the auditor is
\* given, and as the records the auditor then works on.
C19_WellFormedListParsed ==
    \A m \in 1..MaxMandates, indent \in Indents, gap \in Gaps, ref \in BOOLEAN,
       first \in { MandateTitle(1), ErrorTitle(1) } :
          LET AsWritten(records) ==
                  /\ Len(records) = m
                  /\ \A i \in 1..m :
                        /\ records[i].title = (IF i = 1 THEN first ELSE MandateTitle(i))
                        /\ records[i].category = << Words(9) >>
                        /\ records[i].requirement = << Words(40 + i) >>
                        /\ records[i].specifics = << Words(30 + i) >>
          IN  extracted_mandates = NumberedList(m, indent, gap, ref, first) =>
                 /\ pc = "audit" => AsWritten(_parse_mandates(extracted_mandates))
                 /\ pc = "mandate" => AsWritten(mandate_blocks)

\* C20: the sentinel the extraction prompt asks for gives no record in
\* _parse_mandates, and InternalPolicyAuditorAgent.run given it returns it
\* unchanged, having made no search and no generation call.
C20_SentinelIsTerminal ==
    extracted_mandates = Sentinel =>
        /\ pc # "mandate"
        /\ pc = "audit" => _parse_mandates(extracted_mandates) = <<>>
        /\ pc = "append" =>
              /\ gap_analysis_findings = Sentinel
              /\ mandate_blocks = <<>> /\ findings = <<>>
              /\ \A c \in DOMAIN calls : calls[c].who # "auditor"

\* The auditor has returned on the sentinel.
C20_Witness ==
    /\ pc = "append"
    /\ extracted_mandates = Sentinel
    /\ gap_analysis_findings = Sentinel

\* A block is long enough for a record.
LongEnough(b) == len(strip(b)) >= MinBlockLen

\* The records of the reply being audited: those of the pure function
\* before InternalPolicyAuditorAgent.run parsed it, the parsed ones after.
RecordsOf(t) == IF pc = "mandate" THEN mandate_blocks ELSE _parse_mandates(t)

\* C21: _parse_mandates splits by list numbers when that gives at least two
\* blocks; otherwise it splits before the **Mandate: field marker; only if
\* that too gives at most one block it splits before a MANDATE header.  The
\* records are those of the blocks of the strategy so chosen.
C21_StrategyPriority ==
    LET t == extracted_mandates
        byNumber == SplitBefore(t, {"num"}, <<>>)
        byField == SplitBefore(t, {"**Mandate:**"}, <<>>)
        byHeader == SplitBefore(t, {"MANDATE"}, <<>>)
        chosen == IF Len(byNumber) >= 2 THEN byNumber
                  ELSE IF Len(byField) >= 2 THEN byField
                  ELSE byHeader
        kept == SelectSeq(chosen, LongEnough)
    IN  pc \in {"audit", "mandate"} =>
           /\ SplitMandates(t) = chosen
           /\ Len(RecordsOf(t)) = Len(kept)
           /\ \A i \in 1..Len(kept) : RecordsOf(t)[i].full_text = strip(kept[i])

\* C21 witness: a reply was parsed that both the list numbers and the field
\* marker split into two or more blocks, differently.
C21_Witness ==
    LET t == extracted_mandates
        byNumber == SplitBefore(t, {"num"}, <<>>)
        byField == SplitBefore(t, {"**Mandate:**"}, <<>>)
    IN  /\ pc = "mandate"
        /\ Len(byNumber) >= 2
        /\ Len(byField) >= 2
        /\ byNumber # byField
        /\ Len(mandate_blocks) >= 2

\* C22: a block in which the title field or the requirement field cannot be
\* located gives the unstructured record: its requirement is the whole
\* stripped block and its title the first sentence of the block cut to
\* TitleLen characters.
C22_UnstructuredFallback ==
    LET t == extracted_mandates
        kept == SelectSeq(SplitMandates(t), LongEnough)
    IN  pc \in {"audit", "mandate"} /\ Len(RecordsOf(t)) = Len(kept) =>
           \A i \in 1..Len(kept) :
              ~ LineField(kept[i], "**Mandate:**", 1).found
                 \/ ~ ParaField(kept[i], "**Requirement:**", 1).found
              => /\ RecordsOf(t)[i].requirement = strip(kept[i])
                 /\ RecordsOf(t)[i].title =
                       strip(Prefix(FirstSentence(kept[i]), TitleLen))

\* C23: _parse_mandates drops exactly the blocks whose stripped length is
\* under MinBlockLen and makes one record of every other block, in the order
\* of the blocks.
C23_OneRecordPerLongBlock ==
    LET t == extracted_mandates
        blocks == SplitMandates(t)
        long == { i \in 1..Len(blocks) : len(strip(blocks[i])) >= MinBlockLen }
        Place(i) == Cardinality({ j \in long : j <= i })
    IN  pc \in {"audit", "mandate"} =>
           /\ Len(RecordsOf(t)) = Cardinality(long)
           /\ \A i \in long : RecordsOf(t)[Place(i)] = ParseBlock(blocks[i])

\* C23 witness: a reply was parsed of which one block was dropped, long
\* enough only with the blanks at its end, and another gave a record.
C23_Witness ==
    LET blocks == SplitMandates(extracted_mandates)
    IN  /\ pc = "mandate"
        /\ Len(mandate_blocks) >= 1
        /\ \E i \in 1..Len(blocks) :
              len(blocks[i]) >= MinBlockLen /\ len(strip(blocks[i])) < MinBlockLen

\* C24: when the embedding or the search raises for a mandate, the context
\* of that mandate is the fixed NoRelevantPolicies text and its generation
\* call is made all the same; the call having come back, the mandate has its
\* entry, the loop goes on with the next mandate, and at the end every later
\* mandate has had its own search and generation call and has its entry.
C24_RetrievalFailureContained ==
    \A c \in DOMAIN calls :
       calls[c].who = "auditor" /\ calls[c].op = "search" /\ calls[c].outcome = "raise" =>
          LET i == calls[c].idx
          IN  /\ c < Len(calls)
              /\ calls[c + 1].who = "auditor"
              /\ calls[c + 1].op = "generate"
              /\ calls[c + 1].idx = i
              /\ (c + 1 = Len(calls) /\ pc # "append") => context = NoRelevantPolicies
              /\ calls[c + 1].outcome # "exit" =>
                    /\ Len(findings) >= i
                    /\ IsEntryFor(findings[i], i, mandate_blocks[i])
                    /\ (c + 1 = Len(calls) /\ pc = "mandate") => idx = i + 1
                    /\ pc = "append" =>
                          /\ Len(findings) = Len(mandate_blocks)
                          /\ \A j \in (i + 1)..Len(mandate_blocks) :
                                /\ \E d \in AuditorCalls :
                                      calls[d].op = "search" /\ calls[d].idx = j
                                /\ \E d \in AuditorCalls :
                                      calls[d].op = "generate" /\ calls[d].idx = j
                                /\ IsEntryFor(findings[j], j, mandate_blocks[j])

\* C24 witness: the retrieval of the first of two mandates raised, and the
\* auditor returned with the entries of both.
C24_Witness ==
    /\ pc = "append"
    /\ Len(mandate_blocks) = 2
    /\ Len(findings) = 2
    /\ \E c \in AuditorCalls :
          calls[c].op = "search" /\ calls[c].idx = 1 /\ calls[c].outcome = "raise"
    /\ \E c \in AuditorCalls :
          calls[c].op = "search" /\ calls[c].idx = 2 /\ calls[c].outcome = "return"

\* What the generation call of a mandate may return.
AuditReturns == { o.val : o \in { o \in ChatOutcomes(AuditReplies) : o.kind = "return" } }

\* C25: when the generation call of a mandate returns None, the empty string
\* or a text of less than MinResponseLen characters once stripped, the
\* mandate's finding is emitted all the same, with its title, category,
\* requirement and specifics, the InsufficientAnalysis text standing where
\* the answer would; any other answer stands in the finding as returned.
C25_InsufficientAnalysis ==
    \A c \in AuditorCalls :
       calls[c].op = "generate" /\ calls[c].outcome = "return" =>
          LET i == calls[c].idx
          IN  /\ Len(findings) >= i
              /\ \E r \in AuditReturns :
                    findings[i] =
                       full_finding(i, mandate_blocks[i],
                                    IF r = None \/ r = <<>>
                                          \/ len(strip(r)) < MinResponseLen
                                    THEN InsufficientAnalysis ELSE r)

\* C25 witness: the auditor returned a finding that carries the
\* InsufficientAnalysis text, and one that carries the answer.
C25_Witness ==
    /\ pc = "append"
    /\ Len(findings) = 2
    /\ findings[1] = full_finding(1, mandate_blocks[1], InsufficientAnalysis)
    /\ \E r \in AuditReturns :
          /\ len(strip(r)) >= MinResponseLen
          /\ findings[2] = full_finding(2, mandate_blocks[2], r)

\* C26: a regulation text of more than max_length characters goes into the
\* extraction prompt as its first max_length characters followed by the
\* truncation marker, a text of at most max_length characters unchanged; the
\* text of the prompt is never longer than max_length plus the marker.
C26_PromptTextBounded ==
    \A c \in DOMAIN calls :
       calls[c].who = "analyst" /\ calls[c].op = "generate" =>
          /\ len(calls[c].text) <= max_length + len(TruncationMarker)
          /\ IF len(regulation_text) > max_length
             THEN calls[c].text = Prefix(regulation_text, max_length) \o TruncationMarker
             ELSE calls[c].text = regulation_text

\* C26 witness: a text longer than max_length went into the prompt cut, with
\* the marker after it.
C26_Witness ==
    /\ len(regulation_text) > max_length + 1
    /\ \E c \in DOMAIN calls :
          /\ calls[c].who = "analyst" /\ calls[c].op = "generate"
          /\ len(calls[c].text) = max_length + len(TruncationMarker)
          /\ calls[c].text # regulation_text

\* The readable ones of the first n regulation files, in file order.
Readable(n) ==
    SelectSeq(SubSeq(regulation_files, 1, n), LAMBDA f : ~Falsy(f.text))

\* C27: in the regulation loop a file whose text cannot be read (None or
\* empty) is skipped without any call to the agents and the loop goes on
\* with the next file; the record appended for a file carries the mandates
\* and the findings of that file's iteration; and the records kept, which
\* are those handed to run_consolidated, are one per readable file passed,
\* in file order.
C27_UnreadableSkipped ==
    /\ [](/\ Len(all_regulations_data) = Len(Readable(ri - 1))
          /\ \A j \in DOMAIN all_regulations_data :
                all_regulations_data[j].file_name = Readable(ri - 1)[j].name
          /\ (\E c \in DOMAIN calls : calls[c].who = "report")
                => ri = Len(regulation_files) + 1)
    /\ [][/\ (pc = "loop" /\ ri <= Len(regulation_files)
               /\ Falsy(regulation_files[ri].text))
             => /\ pc' = "loop"
                /\ ri' = ri + 1
                /\ calls' = calls
                /\ all_regulations_data' = all_regulations_data
          /\ all_regulations_data' # all_regulations_data
             => /\ ~Falsy(regulation_files[ri].text)
                /\ regulation_text = regulation_files[ri].text
                /\ \E rec \in { all_regulations_data'[Len(all_regulations_data')] } :
                      /\ all_regulations_data' = Append(all_regulations_data, rec)
                      /\ rec.file_name = regulation_files[ri].name
                      /\ rec.mandates = extracted_mandates
                      /\ rec.gap_analysis = gap_analysis_findings
                /\ ri' = ri + 1]_vars

\* C27 witness: of two regulation files the first could not be read, and
\* the record of the second alone was handed to run_consolidated.
C27_Witness ==
    /\ Len(regulation_files) = 2
    /\ Falsy(regulation_files[1].text)
    /\ Len(all_regulations_data) = 1
    /\ all_regulations_data[1].file_name = regulation_files[2].name
    /\ \E c \in DOMAIN calls : calls[c].who = "report" /\ calls[c].op = "generate"

\* C28: InternalPolicyAuditorAgent.run takes the mandates text for an error
\* of the extraction only when the extraction failed: a list the extraction
\* returned is not handed back as the result but analysed mandate by
\* mandate, also when the word "Error" stands within its first ErrorWindow
\* characters.
C28_ErrorOnlyOfFailedExtraction ==
    LET t == extracted_mandates
    IN  (/\ pc = "append"
         /\ ExtractionSucceeded
         /\ Contains(Prefix(t, ErrorWindow), "Error")
         /\ Len(_parse_mandates(t)) >= 1)
        => /\ gap_analysis_findings # t
           /\ Len(mandate_blocks) = Len(_parse_mandates(t))
           /\ \A i \in 1..Len(mandate_blocks) :
                 \E c \in AuditorCalls : calls[c].op = "generate" /\ calls[c].idx = i

\* C29: the analysis of the mandates is left out only for the sentinel: an
\* output that lists M >= 1 structured mandates and holds the words "No
\* actionable mandates" somewhere else gives M findings.
C29_SentinelOnlySkips ==
    LET t == extracted_mandates
        listed == ParseBlocks(SplitMandates(t))
    IN  (/\ pc = "append"
         /\ ExtractionSucceeded
         /\ Contains(t, "No actionable mandates")
         /\ Head(t) # NO_ACTIONABLE
         /\ ~Contains(Prefix(t, ErrorWindow), "Error")
         /\ Len(listed) >= 1
         /\ \A i \in 1..Len(listed) : LineField(listed[i].full_text, "**Mandate:**", 1).found)
        => /\ Len(findings) = Len(listed)
           /\ gap_analysis_findings = join(<< NL, NL >>, findings)

\* The urls processed_rules.json records, and those of the monitor's list.
Persisted ==
    IF fs[processed_rules_file].kind = "json"
    THEN { fs[processed_rules_file].bytes[p] : p \in DOMAIN fs[processed_rules_file].bytes }
    ELSE {}
Listed == { run[1].processed_rules[p] : p \in DOMAIN run[1].processed_rules }

\* The download_pdf calls made for rule u and the entries returned for it.
Downloads(log, u) ==
    { c \in DOMAIN log : log[c].who = "monitor" /\ log[c].op = "download_pdf" /\ log[c].idx = u }
Returned(new, u) == { d \in DOMAIN new : new[d].url = u }

\* C30: over any sequence of process_new_rules calls on one storage path, a
\* rule whose url processed_rules.json records is not downloaded and not
\* returned again; a url is recorded only once its PDF was found and written
\* whole, and a rule whose PDF link is missing or whose download fails is
\* not recorded and is tried again when it is met unrecorded; and when a
\* call returns, processed_rules.json records every rule the call returns.
C30_ProcessedOnce ==
    /\ [](/\ \A u \in Persisted \cup Listed : fs[PdfPath(u)].kind = "pdf"
          /\ pc = "returned" =>
                \A d \in DOMAIN run[1].new_rules_processed :
                   run[1].new_rules_processed[d].url \in Persisted)
    /\ [][pc = "rules" /\ pc' = "rules" =>
             LET u == run[1].rulemakings[run[1].i].url
                 got == { c \in DOMAIN calls' : c > Len(calls) }
             IN  /\ u \in Persisted =>
                       /\ Downloads(calls', u) = Downloads(calls, u)
                       /\ Returned(run'[1].new_rules_processed, u)
                             = Returned(run[1].new_rules_processed, u)
                       /\ fs' = fs
                 /\ u \notin Listed =>
                       /\ got # {}
                       /\ calls'[Len(calls) + 1].op = "extract_pdf_link"
                       /\ calls'[Len(calls) + 1].idx = u
                 /\ (\A c \in got : calls'[c].op = "download_pdf" => calls'[c].outcome # "return")
                       => /\ Persisted' = Persisted
                          /\ run'[1].processed_rules = run[1].processed_rules]_vars

Min(a, b) == IF a <= b THEN a ELSE b

\* The retrieval of the mandate just audited returned.
Retrieved ==
    /\ pc = "mandate"
    /\ idx > 1
    /\ \E c \in AuditorCalls :
          calls[c].op = "search" /\ calls[c].idx = idx - 1 /\ calls[c].outcome = "return"

\* C10: the retrieval for a mandate against an index of n chunks yields
\* exactly min(5, n) chunks, each a distinct stored chunk.
C10_ClampedRetrieval ==
    Retrieved
    => /\ Len(relevant_chunks) = Min(k, Len(chunks))
       /\ \A p, q \in 1..Len(indices) :
             p # q => indices[p] # indices[q]
       /\ \A p \in 1..Len(indices) : indices[p] \in 0..(Len(chunks) - 1)

=============================================================================
